---- MODULE Spec2Model ----
(***************************************************************************)
(* A model of cln (yhakbar/cln): a content-addressed object store under    *)
(* ~/.cln-store, the remote-reference resolver, the tree provider, the     *)
(* two tree walkers and the checkout orchestrator `cln`.                    *)
(*                                                                         *)
(* Strings are sequences of atoms.  An atom is a run of characters that    *)
(* the program never looks into ("100644", "blob", "b1", "refs/tags/"),    *)
(* or one whitespace character (" ", "\t", "\n"), or the path separator    *)
(* "/".  Parsing is modelled on these sequences as the code performs it    *)
(* on characters.                                                          *)
(*                                                                         *)
(* Specifications: Spec (the orchestrator, with kills, failing backend     *)
(* calls and a caller's file in a target), SpecBad (the orchestrator on a  *)
(* store with a listing that was cut short), SpecStore (the store writes   *)
(* as whole operations), SpecResolve (the resolver on any listing),        *)
(* SpecEnsure (store.rs), SpecPar (the parallel walk of src/src/main.rs),  *)
(* SpecRace (the directory creations of concurrent processes), SpecName    *)
(* (the default target directory) and SpecWalk (the two walkers on the     *)
(* same input).                                                            *)
(***************************************************************************)
EXTENDS Naturals, Sequences, FiniteSets, TLC

VARIABLES
    storeRoot,  \* BOOLEAN: the directory ~/.cln-store exists
    store,      \* the store directory: hash -> inode
    inodes,     \* inode -> [data, perm]: file contents and permission bits
    tdirs,      \* target -> set of existing directories (component lists)
    tfiles,     \* target -> (file path -> inode)
    tmp,        \* number of temporary workspaces on disk
    pc,         \* position of the running process
    run,        \* the current invocation
    prev,       \* the previous invocation, as it ended
    stack,      \* the walker's pending frames (the recursion of walk)
    task,       \* the entry the walker is processing
    calls,      \* backend subprocess calls of the current invocation
    snap,       \* the filesystem as it was when the invocation began
    kills,      \* number of kills so far
    firstw,     \* hash -> bytes handed to the first write operation for it
    rsv,        \* the resolver's input and the hashes it has returned
    links,      \* the hard links the walkers have made: [target, key, hash]
    fails,      \* the failed backend calls and cleanups so far: their
                \* number, and which call failed last, how, in which run
    ens,        \* STORE_PATH and its surroundings (store.rs)
    par,        \* the tasks of a parallel walk over one listing
    race,       \* concurrent processes at their directory creations
    tgt,        \* the arguments and the result of the target resolution
    res         \* the outcome of the first of two walks that are compared

vars == <<storeRoot, store, inodes, tdirs, tfiles, tmp, pc, run, prev, stack,
          task, calls, snap, kills, firstw, rsv, links, fails, ens, par, race,
          tgt, res>>

(***************************************************************************)
(* Bounds of the model.                                                    *)
(***************************************************************************)
MaxRuns == 2
MaxKills == 1
MaxRows == 2
MaxOps == 3
MaxCalls == 3
MaxFails == 1
MaxTasks == 2

(***************************************************************************)
(* Strings.                                                                *)
(***************************************************************************)
Whitespace == {" ", "\t", "\n"}

RECURSIVE trim_end(_)
\* str::trim_end: the string without its trailing whitespace.
trim_end(s) ==
    IF s = <<>> THEN <<>>
    ELSE IF s[Len(s)] \in Whitespace THEN trim_end(SubSeq(s, 1, Len(s) - 1))
    ELSE s

RECURSIVE split(_, _)
\* str::split(sep): the pieces of s between the occurrences of sep.
split(s, sep) ==
    IF \A i \in 1..Len(s) : s[i] # sep THEN <<s>>
    ELSE LET i == CHOOSE k \in 1..Len(s) :
                      s[k] = sep /\ \A j \in 1..(k - 1) : s[j] # sep
         IN <<SubSeq(s, 1, i - 1)>> \o split(SubSeq(s, i + 1, Len(s)), sep)

\* str::lines: the pieces between line feeds; a final empty piece is dropped.
lines(s) ==
    LET parts == split(s, "\n")
    IN IF parts[Len(parts)] = <<>> THEN SubSeq(parts, 1, Len(parts) - 1)
       ELSE parts

RECURSIVE split_whitespace(_)
\* str::split_whitespace: the maximal runs of non-whitespace atoms.
split_whitespace(s) ==
    IF s = <<>> THEN <<>>
    ELSE IF s[1] \in Whitespace THEN split_whitespace(Tail(s))
    ELSE LET stops == {k \in 1..Len(s) : s[k] \in Whitespace}
             n == IF stops = {} THEN Len(s)
                  ELSE (CHOOSE k \in stops : \A j \in stops : k <= j) - 1
         IN <<SubSeq(s, 1, n)>> \o split_whitespace(SubSeq(s, n + 1, Len(s)))

RECURSIVE join(_)
\* [&str]::join(" ")
join(toks) ==
    IF toks = <<>> THEN <<>>
    ELSE IF Len(toks) = 1 THEN toks[1]
    ELSE toks[1] \o <<" ">> \o join(Tail(toks))

RECURSIVE Perms(_)
\* All orderings of a set: the orders in which a parallel bridge
\* (par_bridge().collect()) may deliver the items it was given.
Perms(S) ==
    IF S = {} THEN {<<>>}
    ELSE UNION {{<<x>> \o p : p \in Perms(S \ {x})} : x \in S}

\* The orders in which par_bridge may deliver the items of sequence s.
Shuffles(s) ==
    {[i \in 1..Len(s) |-> s[p[i]]] : p \in Perms(1..Len(s))}

(***************************************************************************)
(* Reference resolver: LsRemoteRow, LsRemote.                              *)
(***************************************************************************)
\* LsRemoteRow::new: the first field is the hash, the rest is the name.
\* A row without a first field makes the code panic (expect).
LsRemoteRow_new(row) ==
    LET toks == split_whitespace(row)
    IN IF toks = <<>> THEN [bad |-> TRUE, hash |-> <<>>, name |-> <<>>]
       ELSE [bad |-> FALSE, hash |-> toks[1], name |-> join(Tail(toks))]

\* The filter of LsRemote::new.
Matches(name, reference) ==
    \/ name = reference
    \/ name = <<"refs/tags/">> \o reference
    \/ name = <<"refs/heads/">> \o reference

RECURSIVE SelectSeq2(_, _)
SelectSeq2(s, reference) ==
    IF s = <<>> THEN <<>>
    ELSE IF Matches(s[1].name, reference)
         THEN <<s[1]>> \o SelectSeq2(Tail(s), reference)
         ELSE SelectSeq2(Tail(s), reference)

\* LsRemote::new: the set of row vectors the constructor may produce.  The
\* rows go through par_bridge, which does not keep their order.
LsRemote_new(out, reference) ==
    LET ls == lines(out)
        parsed == [i \in 1..Len(ls) |-> LsRemoteRow_new(ls[i])]
    IN {SelectSeq2(s, reference) : s \in Shuffles(parsed)}

\* Whether parsing the listing panics.
LsRemotePanics(out) ==
    \E i \in 1..Len(lines(out)) : LsRemoteRow_new(lines(out)[i]).bad

\* get_hash without its check for an empty row vector: an empty hash
\* instead of the error.
get_hash_lenient(rows) ==
    IF rows = <<>> THEN [ok |-> TRUE, err |-> "", hash |-> <<>>]
    ELSE [ok |-> TRUE, err |-> "", hash |-> rows[1].hash]

\* LsRemote::get_hash
get_hash(rows) ==
    IF rows = <<>> THEN [ok |-> FALSE, err |-> "NoMatchingReferenceError", hash |-> <<>>]
    ELSE [ok |-> TRUE, err |-> "", hash |-> rows[1].hash]

\* run_ls_remote: the listing is trimmed at its end before it is parsed.
run_ls_remote(stdout, reference) == LsRemote_new(trim_end(stdout), reference)

(***************************************************************************)
(* The backend (git), as the subprocess calls of the code see it.  The     *)
(* repository holds two commits: c1 (a file, a directory with an           *)
(* executable file, a submodule) and c2 (the file of c1 again, under a     *)
(* name with two consecutive spaces).                                      *)
(***************************************************************************)
Refs == {<<"main">>, <<"dev">>, <<"nope">>}
Targets == {"out1", "out2"}

\* stdout of `git ls-remote <repo> <reference>`
LsRemoteStdout(reference) ==
    CASE reference = <<"main">> ->
            <<"c1", "\t", "refs/heads/", "main", "\n",
              "c2", "\t", "refs/heads/", "x/", "main", "\n">>
      [] reference = <<"dev">> ->
            <<"c2", "\t", "refs/heads/", "dev", "\n">>
      [] OTHER -> <<>>

\* stdout of `git ls-tree <hash>`; empty when git fails (the exit status is
\* not looked at).
LsTreeStdout(h) ==
    CASE h = <<"c1">> ->
            <<"1", "0", "0", "6", "4", "4", " ", "blob", " ", "b1", "\t", "a", "\n",
              "0", "4", "0", "0", "0", "0", " ", "tree", " ", "t1", "\t", "d", "\n",
              "1", "6", "0", "0", "0", "0", " ", "commit", " ", "s1", "\t", "m", "\n">>
      [] h = <<"t1">> ->
            <<"1", "0", "0", "7", "5", "5", " ", "blob", " ", "b2", "\t", "f", "\n">>
      [] h = <<"c2">> ->
            <<"1", "0", "0", "6", "4", "4", " ", "blob", " ", "b1", "\t",
              "p", " ", " ", "q", "\n">>
      [] OTHER -> <<>>

\* stdout of `git cat-file -p <hash>`
CatFileStdout(h) ==
    CASE h = <<"b1">> -> <<"hello", "\n">>
      [] h = <<"b2">> -> <<"#!sh", "\n">>
      [] OTHER -> <<>>

(***************************************************************************)
(* Paths.                                                                  *)
(***************************************************************************)
\* Path::join
Path_join(p, q) ==
    IF q # <<>> /\ q[1] = "/" THEN q
    ELSE IF p = <<>> THEN q
    ELSE IF p[Len(p)] = "/" THEN p \o q
    ELSE p \o <<"/">> \o q

\* The components the file system resolves a relative path to: empty
\* components and "." are skipped.
Components(p) ==
    SelectSeq(split(p, "/"), LAMBDA c : c # <<>> /\ c # <<".">>)

\* All leading parts of a component list, the list itself included.
Prefixes(k) == {SubSeq(k, 1, n) : n \in 0..Len(k)}

\* An existence test that sees directories only.
exists_dirs_only(dirs, files, k) == k \in dirs

\* Path::exists for a path below a target directory
exists(dirs, files, k) == k \in dirs \/ k \in DOMAIN files

(***************************************************************************)
(* Files of the object store.                                              *)
(***************************************************************************)
\* The inode a file gets when it is first created at the given place.
Ino(dir, name) == [dir |-> dir, name |-> name]

\* File::create / the open(O_CREAT | O_TRUNC) of fs::write: an empty file,
\* new with mode 0644 or the old one truncated.
CreateFile(s, i, h) ==
    IF h \in DOMAIN s
    THEN [store |-> s, inodes |-> [i EXCEPT ![s[h]].data = <<>>]]
    ELSE [store |-> (h :> Ino("store", h)) @@ s,
          inodes |-> (Ino("store", h) :> [data |-> <<>>, perm |-> 6 * 64 + 4 * 8 + 4]) @@ i]

\* A write that stores nothing.
WriteNothing(s, i, h, bytes) == i

\* write_all
WriteAll(s, i, h, bytes) == [i EXCEPT ![s[h]].data = bytes]

\* The digits of a mode string.
DigitVal(c) ==
    CASE c = "0" -> 0 [] c = "1" -> 1 [] c = "2" -> 2 [] c = "3" -> 3
      [] c = "4" -> 4 [] c = "5" -> 5 [] c = "6" -> 6 [] c = "7" -> 7
      [] c = "8" -> 8 [] c = "9" -> 9 [] OTHER -> 10

RECURSIVE ParseRadix(_, _)
ParseRadix(digits, radix) ==
    IF digits = <<>> THEN 0
    ELSE ParseRadix(SubSeq(digits, 1, Len(digits) - 1), radix) * radix
         + DigitVal(digits[Len(digits)])

\* str::parse::<u32>: a decimal number, or an error.
ParseMode(m) ==
    IF m = <<>> \/ \E k \in 1..Len(m) : DigitVal(m[k]) > 9 \/ Len(m) > 9
    THEN [ok |-> FALSE, val |-> 0]
    ELSE [ok |-> TRUE, val |-> ParseRadix(m, 10)]

ClearBit(n, b) == IF (n \div b) % 2 = 1 THEN n - b ELSE n

\* Permissions::from_mode(n), set_readonly(true), set_permissions: the low
\* twelve bits of n without the three write bits.
StoredPerm(n) == ClearBit(ClearBit(ClearBit(n % 4096, 128), 16), 2)

set_permissions(s, i, h, p) == [i EXCEPT ![s[h]].perm = p]

\* A store write without the existence check.
ShouldWriteAlways(s, h) == TRUE

\* The existence check that guards a store write (write_to_store, ls_tree).
ShouldWrite(s, h) == h \notin DOMAIN s

(***************************************************************************)
(* Tree listings: TreeRow, Tree.                                           *)
(***************************************************************************)
\* TreeRow::new: mode, otype, name (the hash) and the rest as the path.  A
\* row with fewer than three fields makes the code panic (expect).
TreeRow_new(row) ==
    LET toks == split_whitespace(row)
    IN IF Len(toks) < 3
       THEN [bad |-> TRUE, mode |-> <<>>, otype |-> <<>>, name |-> <<>>, path |-> <<>>]
       ELSE [bad |-> FALSE, mode |-> toks[1], otype |-> toks[2], name |-> toks[3],
             path |-> join(SubSeq(toks, 4, Len(toks)))]

\* Tree::new: the rows of a listing (in no particular order) and the path
\* of the tree below the checkout root.
Tree_new(text, path) ==
    LET ls == lines(text)
    IN [rows |-> {TreeRow_new(ls[k]) : k \in 1..Len(ls)}, path |-> path]

TreePanics(tree) == \E r \in tree.rows : r.bad

\* A frame that takes every row that is not a tree for a blob.
FrameAllBlobs(tree) ==
    [path |-> tree.path,
     blobs |-> {r \in tree.rows : r.otype # <<"tree">>},
     trees |-> {r \in tree.rows : r.otype = <<"tree">>}]

\* The frame of one call of walk: the blob rows and the tree rows that are
\* still to be processed; rows of any other kind are dropped.
Frame(tree) ==
    [path |-> tree.path,
     blobs |-> {r \in tree.rows : r.otype = <<"blob">>},
     trees |-> {r \in tree.rows : r.otype = <<"tree">>}]

(***************************************************************************)
(* State of the checkout process.                                          *)
(***************************************************************************)
FS == [storeRoot |-> storeRoot, store |-> store, inodes |-> inodes,
       tdirs |-> tdirs, tfiles |-> tfiles, tmp |-> tmp]

NoRun == [n |-> 0, kind |-> "none", ref |-> <<>>, target |-> "", hash |-> <<>>,
          path |-> "none", walked |-> FALSE, err |-> "", end |-> "",
          arg |-> <<>>, mode |-> <<>>, wrote |-> FALSE]
NoTask == [k |-> "none", step |-> "", row |-> TreeRow_new(<<>>), path |-> <<>>,
           failed |-> FALSE]
NoFails == [n |-> 0, call |-> "", kind |-> "", run |-> 0]
NoCalls == [lsremote |-> 0, clone |-> 0, lstree |-> 0, catfile |-> 0]
NoRsv == [out |-> <<>>, ref |-> <<>>, got |-> <<>>]
None == [some |-> FALSE, val |-> <<>>]
Some(v) == [some |-> TRUE, val |-> v]
NoEns == [path |-> None, dirs |-> {}, home |-> None, n |-> 0, ret |-> "",
          arg |-> None, before |-> None, mk |-> "none", seen |-> ""]
NoPar == [n |-> 0, rows |-> <<>>, path |-> <<>>, root |-> FALSE, pcs |-> <<>>,
          passed |-> <<>>, writes |-> <<>>, trunc |-> {}]
NoRace == [n |-> 0, dirs |-> {}, pcs |-> <<>>, err |-> <<>>, saw |-> <<>>]
NoTgt == [n |-> 0, repo |-> <<>>, dir |-> None, out |-> <<>>]
NoRes == [n |-> 0, walker |-> "", pc |-> "", tdirs |-> <<>>, tfiles |-> <<>>,
          store |-> <<>>, inodes |-> <<>>]

Ended == {"idle", "done", "error", "panic", "killed"}

\* The live walker on both paths.
WalkerAlwaysRepo(path) == "repo"

\* The walker cln hands the tree to: the store-only one (impl Walkable for
\* Hash) on the cached path, the live one (impl Walkable for RepoPath) on
\* the fetch path.
WalkerOf(path) == IF path = "cached" THEN "hash" ELSE "repo"

InitFS ==
    /\ storeRoot = FALSE
    /\ store = <<>>
    /\ inodes = <<>>
    /\ tdirs = [t \in Targets |-> {}]
    /\ tfiles = [t \in Targets |-> <<>>]
    /\ tmp = 0
    /\ pc = "idle"
    /\ run = NoRun
    /\ prev = NoRun
    /\ stack = <<>>
    /\ task = NoTask
    /\ calls = NoCalls
    /\ snap = [storeRoot |-> FALSE, store |-> <<>>, inodes |-> <<>>,
               tdirs |-> [t \in Targets |-> {}],
               tfiles |-> [t \in Targets |-> <<>>], tmp |-> 0]
    /\ kills = 0
    /\ firstw = <<>>
    /\ links = {}
    /\ fails = NoFails
    /\ race = NoRace
    /\ tgt = NoTgt
    /\ res = NoRes

Init == InitFS /\ rsv = NoRsv /\ ens = NoEns /\ par = NoPar

Fail(e) ==
    /\ pc' = "error"
    /\ run' = [run EXCEPT !.err = e]
    /\ stack' = <<>>
    /\ task' = NoTask

(***************************************************************************)
(* cln: the checkout orchestrator.                                         *)
(***************************************************************************)
\* The target directory the caller names may exist already and hold a file
\* of the caller's: here the file "a" in the directory out2, before the
\* first checkout.
PlaceFile ==
    /\ pc = "idle"
    /\ run.n = 0
    /\ tdirs["out2"] = {}
    /\ tdirs' = [tdirs EXCEPT !["out2"] = {<<>>}]
    /\ tfiles' = [tfiles EXCEPT !["out2"] = (<<<<"a">>>> :> Ino("user", <<"a">>))]
    /\ inodes' = (Ino("user", <<"a">>) :> [data |-> <<"mine">>, perm |-> 6 * 64 + 4 * 8 + 4])
                  @@ inodes
    /\ UNCHANGED <<storeRoot, store, tmp, pc, run, prev, stack, task, calls,
                   snap, kills, firstw, rsv, links, fails, ens, par,
                   race, tgt, res>>

\* A call of cln(repo, Some(target), Some(reference)) begins.
StartCln ==
    /\ pc \in Ended
    /\ run.n < MaxRuns
    /\ \E r \in Refs, t \in Targets :
          run' = [NoRun EXCEPT !.n = run.n + 1, !.kind = "cln", !.ref = r, !.target = t]
    /\ prev' = [run EXCEPT !.end = pc]
    /\ pc' = "resolve"
    /\ calls' = NoCalls
    /\ snap' = FS
    /\ UNCHANGED <<storeRoot, store, inodes, tdirs, tfiles, tmp, stack, task,
                   kills, firstw, rsv,
                   links, fails, ens, par, race, tgt, res>>

\* The ways a backend subprocess call can end: the command runs and exits
\* with status zero; it cannot be spawned; it exits with another status,
\* having printed nothing to its standard output.
Outcomes == {"ok", "spawn", "exit"}

\* What the code reads from the standard output of a call.
Stdout(failed, out) == IF failed THEN <<>> ELSE out

\* The bookkeeping of a call that may fail: at most MaxFails calls do.
Fault(call, outcome) ==
    /\ outcome # "ok" => fails.n < MaxFails
    /\ fails' = IF outcome = "ok" THEN fails
                ELSE [n |-> fails.n + 1, call |-> call, kind |-> outcome,
                      run |-> run.n]

\* The TempDir of the fetch path is dropped, and its directory removed, when
\* cln returns early or unwinds after it was created.
DropTmp ==
    tmp' = IF /\ pc' \in {"error", "panic"}
              /\ run.kind = "cln"
              /\ run.path = "fetch"
              /\ pc \in {"ls_tree", "mkdir", "walk"}
           THEN tmp - 1
           ELSE tmp

\* run_ls_remote and get_hash.  The exit status of git ls-remote is not
\* looked at: whatever it printed is parsed.
Resolve ==
    /\ pc = "resolve"
    /\ calls' = [calls EXCEPT !.lsremote = @ + 1]
    /\ \E outcome \in Outcomes :
          /\ Fault("ls-remote", outcome)
          /\ IF outcome = "spawn"
             THEN pc' = "error" /\ run' = [run EXCEPT !.err = "CommandSpawnError"]
             ELSE LET stdout == Stdout(outcome = "exit", LsRemoteStdout(run.ref))
                  IN IF LsRemotePanics(trim_end(stdout))
                     THEN pc' = "panic" /\ UNCHANGED run
                     ELSE \E rows \in run_ls_remote(stdout, run.ref) :
                             LET g == get_hash(rows)
                             IN IF g.ok
                                THEN pc' = "check" /\ run' = [run EXCEPT !.hash = g.hash]
                                ELSE pc' = "error" /\ run' = [run EXCEPT !.err = g.err]
    /\ UNCHANGED <<storeRoot, store, inodes, tdirs, tfiles, tmp, prev, stack,
                   task, snap, kills, firstw, rsv, links, ens, par,
                   race, tgt, res>>

\* A store test that never finds the entry.
is_content_in_store_never(s, h) == FALSE

\* is_content_in_store: the existence of the entry, and nothing else.
is_content_in_store(s, h) == h \in DOMAIN s

\* is_content_in_store(&ls_remote_hash): get_cln_store_path creates the
\* store root when it is missing; then the existence of the entry decides
\* the path.
CheckCache ==
    /\ pc = "check"
    /\ storeRoot' = TRUE
    /\ IF is_content_in_store(store, run.hash)
       THEN pc' = "cached_tree" /\ run' = [run EXCEPT !.path = "cached"]
       ELSE pc' = "fetch" /\ run' = [run EXCEPT !.path = "fetch"]
    /\ UNCHANGED <<store, inodes, tdirs, tfiles, tmp, prev, stack, task,
                   calls, snap, kills, firstw, rsv, links, fails, ens, par,
                   race, tgt, res>>

\* Tree::from_hash(hash, "."): the cached text, trimmed and parsed.
CachedTree ==
    /\ pc = "cached_tree"
    /\ IF run.hash \notin DOMAIN store
       THEN Fail("ReadTreeError")
       ELSE LET tree == Tree_new(trim_end(inodes[store[run.hash]].data), <<".">>)
            IN IF TreePanics(tree)
               THEN pc' = "panic" /\ UNCHANGED <<run, stack, task>>
               ELSE /\ pc' = "mkdir"
                    /\ stack' = <<Frame(tree)>>
                    /\ UNCHANGED <<run, task>>
    /\ UNCHANGED <<storeRoot, store, inodes, tdirs, tfiles, tmp, prev, calls,
                   snap, kills, firstw, rsv, links, fails, ens, par,
                   race, tgt, res>>

\* clone_repo without the test of the exit status.
clone_repo_unchecked(outcome) ==
    IF outcome = "spawn" THEN "CommandSpawnError" ELSE ""

\* clone_repo: the error it returns for the way git clone ended, or none.
clone_repo(outcome) ==
    CASE outcome = "spawn" -> "CommandSpawnError"
      [] outcome = "exit" -> "GitCloneError"
      [] OTHER -> ""

\* create_temp_dir and clone_repo: a temporary workspace with a shallow
\* bare clone in it.  When the clone fails cln returns and the workspace
\* is dropped.
Fetch ==
    /\ pc = "fetch"
    /\ \E outcome \in Outcomes \cup {"tempdir"} :
          /\ Fault(IF outcome = "tempdir" THEN "tempdir" ELSE "clone", outcome)
          /\ calls' = IF outcome = "tempdir" THEN calls
                      ELSE [calls EXCEPT !.clone = @ + 1]
          /\ LET e == IF outcome = "tempdir" THEN "TempDirError"
                      ELSE clone_repo(outcome)
             IN IF e = ""
                THEN tmp' = tmp + 1 /\ pc' = "ls_tree" /\ UNCHANGED run
                ELSE /\ UNCHANGED tmp
                     /\ pc' = "error"
                     /\ run' = [run EXCEPT !.err = e]
    /\ UNCHANGED <<storeRoot, store, inodes, tdirs, tfiles, prev, stack,
                   task, snap, kills, firstw, rsv, links, ens, par, race, tgt,
                   res>>

\* Treevarsable::ls_tree up to the creation of the store file: the cached
\* text when the store has it, else the backend's listing, for which an
\* empty store file is created.  The result is a task that still has to
\* fill the file, or the parsed tree pushed as a frame.  The exit status of
\* git ls-tree is not looked at.
LsTreeBegin(h, path, next, stk) ==
    /\ storeRoot' = TRUE
    /\ IF ShouldWrite(store, h)
       THEN /\ calls' = [calls EXCEPT !.lstree = @ + 1]
            /\ \E outcome \in Outcomes :
                  /\ Fault("ls-tree", outcome)
                  /\ IF outcome = "spawn"
                     THEN Fail("CommandSpawnError") /\ UNCHANGED <<store, inodes>>
                     ELSE /\ store' = CreateFile(store, inodes, h).store
                          /\ inodes' = CreateFile(store, inodes, h).inodes
                          /\ task' = [NoTask EXCEPT !.k = "tree", !.step = "fill",
                                                    !.row.name = h, !.path = path,
                                                    !.failed = (outcome = "exit")]
                          /\ stack' = stk
                          /\ UNCHANGED <<pc, run>>
       ELSE LET tree == Tree_new(inodes[store[h]].data, path)
            IN /\ UNCHANGED <<calls, store, inodes, run, fails>>
               /\ IF TreePanics(tree)
                  THEN pc' = "panic" /\ stack' = <<>> /\ task' = NoTask
                  ELSE pc' = next /\ stack' = <<Frame(tree)>> \o stk
                       /\ task' = NoTask

\* ls_tree, continued: fs::write fills the file with the trimmed listing,
\* which is then parsed.
TreeFill ==
    /\ pc \in {"ls_tree", "walk"}
    /\ task.k = "tree"
    /\ task.step = "fill"
    /\ LET text == trim_end(Stdout(task.failed, LsTreeStdout(task.row.name)))
           tree == Tree_new(text, task.path)
       IN /\ inodes' = WriteAll(store, inodes, task.row.name, text)
          /\ task' = NoTask
          /\ IF TreePanics(tree)
             THEN pc' = "panic" /\ stack' = <<>>
             ELSE /\ pc' = IF pc = "ls_tree" THEN "mkdir" ELSE pc
                  /\ stack' = <<Frame(tree)>> \o stack
    /\ DropTmp
    /\ UNCHANGED <<storeRoot, store, tdirs, tfiles, run, prev, calls,
                   snap, kills, firstw, rsv, links, fails, ens, par,
                   race, tgt, res>>

\* tmp_dir_path.ls_tree(&ls_remote_hash, ".") on the fetch path
LsTreeRoot ==
    /\ pc = "ls_tree"
    /\ task.k = "none"
    /\ LsTreeBegin(run.hash, <<".">>, "mkdir", stack)
    /\ DropTmp
    /\ UNCHANGED <<tdirs, tfiles, prev, snap, kills, firstw, rsv, links, ens,
                   par, race, tgt, res>>

\* create_dir(&target_dir) when the target does not exist; then the walk
\* begins.
Mkdir ==
    /\ pc = "mkdir"
    /\ tdirs' = [tdirs EXCEPT ![run.target] = @ \cup {<<>>}]
    /\ pc' = "walk"
    /\ run' = [run EXCEPT !.walked = TRUE]
    /\ UNCHANGED <<storeRoot, store, inodes, tfiles, tmp, prev, stack, task,
                   calls, snap, kills, firstw, rsv, links, fails, ens, par,
                   race, tgt, res>>

(***************************************************************************)
(* The walkers: impl Walkable for RepoPath and impl Walkable for Hash.     *)
(* walk awaits the blob rows one after another, then the tree rows; the    *)
(* rows are in the order par_bridge delivered them, that is, in any order. *)
(***************************************************************************)
\* A copy in place of a link: a file of its own at the target path.
copy_file(files, key, ino) == (key :> Ino("copy", key)) @@ files

\* fs::hard_link: a second name for the inode of the store file.
hard_link(files, key, ino) == (key :> ino) @@ files

\* write_blob without the check for an existing target path.
SkipNever(dirs, files, key) == FALSE

\* The guard of write_blob that skips a target path that exists already.
SkipExisting(dirs, files, key) == exists(dirs, files, key)

\* write_blob begins for one blob row.  RepoPath: write_to_store up to the
\* creation of the store file (nothing when the store has the hash); the
\* exit status of git cat-file is not looked at.  Hash: nothing is written
\* to the store.
WalkBlob ==
    /\ pc = "walk"
    /\ task.k = "none"
    /\ stack # <<>>
    /\ \E r \in stack[1].blobs :
          IF WalkerOf(run.path) = "repo" /\ ShouldWrite(store, r.name)
          THEN /\ calls' = [calls EXCEPT !.catfile = @ + 1]
               /\ \E outcome \in Outcomes :
                     /\ Fault("cat-file", outcome)
                     /\ IF outcome = "spawn"
                        THEN Fail("CommandSpawnError") /\ UNCHANGED <<store, inodes>>
                        ELSE /\ store' = CreateFile(store, inodes, r.name).store
                             /\ inodes' = CreateFile(store, inodes, r.name).inodes
                             /\ stack' = [stack EXCEPT ![1].blobs = @ \ {r}]
                             /\ task' = [k |-> "blob", step |-> "fill", row |-> r,
                                         path |-> stack[1].path,
                                         failed |-> (outcome = "exit")]
                             /\ UNCHANGED <<pc, run>>
          ELSE /\ UNCHANGED <<calls, store, inodes, pc, run, fails>>
               /\ stack' = [stack EXCEPT ![1].blobs = @ \ {r}]
               /\ task' = [k |-> "blob", step |-> "mkdir", row |-> r,
                           path |-> stack[1].path, failed |-> FALSE]
    /\ DropTmp
    /\ UNCHANGED <<storeRoot, tdirs, tfiles, prev, snap, kills, firstw, rsv,
                   links, ens, par, race, tgt, res>>

\* write_to_store, continued: fs::write fills the file with the blob.
BlobFill ==
    /\ pc = "walk"
    /\ task.k = "blob"
    /\ task.step = "fill"
    /\ inodes' = WriteAll(store, inodes, task.row.name,
                          Stdout(task.failed, CatFileStdout(task.row.name)))
    /\ task' = [task EXCEPT !.step = "chmod"]
    /\ UNCHANGED <<storeRoot, store, tdirs, tfiles, tmp, pc, run, prev, stack,
                   calls, snap, kills, firstw, rsv, links, fails, ens, par,
                   race, tgt, res>>

\* write_to_store, continued: the mode is parsed and the permissions set.
BlobChmod ==
    /\ pc = "walk"
    /\ task.k = "blob"
    /\ task.step = "chmod"
    /\ LET m == ParseMode(task.row.mode)
       IN IF m.ok
          THEN /\ inodes' = set_permissions(store, inodes, task.row.name, StoredPerm(m.val))
               /\ task' = [task EXCEPT !.step = "mkdir"]
               /\ UNCHANGED <<pc, run, stack>>
          ELSE Fail("ParseModeError") /\ UNCHANGED inodes
    /\ DropTmp
    /\ UNCHANGED <<storeRoot, store, tdirs, tfiles, prev, calls, snap,
                   kills, firstw, rsv, links, fails, ens, par, race, tgt, res>>

\* write_blob, continued: create_dir_all of the directory of the tree.
BlobMkdir ==
    /\ pc = "walk"
    /\ task.k = "blob"
    /\ task.step = "mkdir"
    /\ tdirs' = [tdirs EXCEPT ![run.target] = @ \cup Prefixes(Components(task.path))]
    /\ task' = [task EXCEPT !.step = "link"]
    /\ UNCHANGED <<storeRoot, store, inodes, tfiles, tmp, pc, run, prev, stack,
                   calls, snap, kills, firstw, rsv, links, fails, ens, par,
                   race, tgt, res>>

\* write_blob, continued: nothing when the target path exists, else a hard
\* link from the store file, which fails when the store file is missing or
\* the target path is taken.
BlobLink ==
    /\ pc = "walk"
    /\ task.k = "blob"
    /\ task.step = "link"
    /\ LET key == Components(Path_join(task.path, task.row.path))
       IN IF SkipExisting(tdirs[run.target], tfiles[run.target], key)
          THEN task' = NoTask /\ UNCHANGED <<tfiles, links, pc, run, stack>>
          ELSE IF \/ task.row.name \notin DOMAIN store
                  \/ exists(tdirs[run.target], tfiles[run.target], key)
          THEN Fail("HardLinkError") /\ UNCHANGED <<tfiles, links>>
          ELSE /\ tfiles' = [tfiles EXCEPT ![run.target] =
                                hard_link(@, key, store[task.row.name])]
               /\ links' = links \cup {[target |-> run.target, key |-> key,
                                          hash |-> task.row.name]}
               /\ task' = NoTask
               /\ UNCHANGED <<pc, run, stack>>
    /\ DropTmp
    /\ UNCHANGED <<storeRoot, store, inodes, tdirs, prev, calls, snap,
                   kills, firstw, rsv, fails, ens, par, race, tgt, res>>

\* walk_tree for one tree row, once the blob rows are done.  RepoPath:
\* ls_tree; Hash: Tree::from_hash.
WalkTree ==
    /\ pc = "walk"
    /\ task.k = "none"
    /\ stack # <<>>
    /\ stack[1].blobs = {}
    /\ \E r \in stack[1].trees :
          LET rest == [stack EXCEPT ![1].trees = @ \ {r}]
              path == Path_join(stack[1].path, r.path)
          IN IF WalkerOf(run.path) = "repo"
             THEN LsTreeBegin(r.name, path, "walk", rest)
             ELSE /\ UNCHANGED <<storeRoot, store, inodes, calls, fails>>
                  /\ IF r.name \notin DOMAIN store
                     THEN Fail("ReadTreeError")
                     ELSE LET tree == Tree_new(trim_end(inodes[store[r.name]].data), path)
                          IN IF TreePanics(tree)
                             THEN pc' = "panic" /\ stack' = <<>>
                                  /\ UNCHANGED <<run, task>>
                             ELSE /\ stack' = <<Frame(tree)>> \o rest
                                  /\ UNCHANGED <<pc, run, task>>
    /\ DropTmp
    /\ UNCHANGED <<tdirs, tfiles, prev, snap, kills, firstw, rsv, links, ens,
                   par, race, tgt, res>>

\* A call of walk returns: its rows are all done.
WalkPop ==
    /\ pc = "walk"
    /\ task.k = "none"
    /\ stack # <<>>
    /\ stack[1].blobs = {}
    /\ stack[1].trees = {}
    /\ stack' = Tail(stack)
    /\ UNCHANGED <<storeRoot, store, inodes, tdirs, tfiles, tmp, pc, run, prev,
                   task, calls, snap, kills, firstw, rsv, links, fails, ens,
                   par, race, tgt, res>>

\* The outermost walk has returned.
WalkEnd ==
    /\ pc = "walk"
    /\ task.k = "none"
    /\ stack = <<>>
    /\ pc' = IF run.kind = "cln" /\ run.path = "fetch" THEN "close" ELSE "done"
    /\ UNCHANGED <<storeRoot, store, inodes, tdirs, tfiles, tmp, run, prev,
                   stack, task, calls, snap, kills, firstw, rsv, links, fails,
                   ens, par, race, tgt, res>>

\* tmp_dir.close(): the temporary workspace is removed, or the removal
\* fails and cln returns TempDirCloseError.
Close ==
    /\ pc = "close"
    /\ \E outcome \in {"ok", "close"} :
          /\ Fault("close", outcome)
          /\ IF outcome = "ok"
             THEN tmp' = tmp - 1 /\ pc' = "done" /\ UNCHANGED run
             ELSE /\ UNCHANGED tmp
                  /\ pc' = "error"
                  /\ run' = [run EXCEPT !.err = "TempDirCloseError"]
    /\ UNCHANGED <<storeRoot, store, inodes, tdirs, tfiles, prev, stack,
                   task, calls, snap, kills, firstw, rsv, links, ens, par,
                   race, tgt, res>>

\* The process is killed: whatever it has written stays as it is.
Kill ==
    /\ pc \notin Ended
    /\ run.kind = "cln"
    /\ kills < MaxKills
    /\ kills' = kills + 1
    /\ pc' = "killed"
    /\ stack' = <<>>
    /\ task' = NoTask
    /\ UNCHANGED <<storeRoot, store, inodes, tdirs, tfiles, tmp, run, prev,
                   calls, snap, firstw, rsv,
                   links, fails, ens, par, race, tgt, res>>

\* The walker that has just returned is called once more with the same
\* listing, the same source and the same target directory.
StartRewalk ==
    /\ pc \in {"done", "error"}
    /\ run.walked
    /\ run.kind = "cln"
    /\ run.hash \in DOMAIN store
    /\ run' = [run EXCEPT !.kind = "rewalk", !.err = ""]
    /\ prev' = [run EXCEPT !.end = pc]
    /\ stack' = <<Frame(Tree_new(trim_end(inodes[store[run.hash]].data), <<".">>))>>
    /\ pc' = "walk"
    /\ calls' = NoCalls
    /\ snap' = FS
    /\ UNCHANGED <<storeRoot, store, inodes, tdirs, tfiles, tmp, task, kills,
                   firstw, rsv,
                   links, fails, ens, par, race, tgt, res>>

Next ==
    \/ PlaceFile
    \/ StartCln
    \/ Resolve
    \/ CheckCache
    \/ CachedTree
    \/ Fetch
    \/ LsTreeRoot
    \/ TreeFill
    \/ Mkdir
    \/ WalkBlob
    \/ BlobFill
    \/ BlobChmod
    \/ BlobMkdir
    \/ BlobLink
    \/ WalkTree
    \/ WalkPop
    \/ WalkEnd
    \/ Close
    \/ Kill
    \/ StartRewalk

Spec == Init /\ [][Next]_vars

(***************************************************************************)
(* The two store writes as whole operations, called one after another      *)
(* with any hash, any bytes and any mode.                                  *)
(***************************************************************************)
\* TreeRow::write_to_store, with the blob that git cat-file printed.
write_to_store(s, i, h, bytes, mode) ==
    IF ~ShouldWrite(s, h) THEN [store |-> s, inodes |-> i, err |-> ""]
    ELSE LET c == CreateFile(s, i, h)
             w == WriteAll(c.store, c.inodes, h, bytes)
             m == ParseMode(mode)
         IN IF m.ok
            THEN [store |-> c.store,
                  inodes |-> set_permissions(c.store, w, h, StoredPerm(m.val)),
                  err |-> ""]
            ELSE [store |-> c.store, inodes |-> w, err |-> "ParseModeError"]

\* Treevarsable::ls_tree, with the listing that git ls-tree printed.
ls_tree(s, i, h, stdout) ==
    IF ~ShouldWrite(s, h) THEN [store |-> s, inodes |-> i, text |-> i[s[h]].data]
    ELSE LET c == CreateFile(s, i, h)
         IN [store |-> c.store,
             inodes |-> WriteAll(c.store, c.inodes, h, trim_end(stdout)),
             text |-> trim_end(stdout)]

StoreHashes == {<<"h1">>, <<"h2">>}
StoreBytes == {<<"x">>, <<"y", "\n">>}
StoreTexts == {<<>>, <<"1", "0", "0", "6", "4", "4", " ", "blob", " ", "h2", "\t", "a", "\n">>}
StoreModes == {<<"1", "0", "0", "6", "4", "4">>, <<"1", "0", "0", "7", "5", "5">>, <<"rw">>}

\* The bytes the first write operation for h was given to store.
NoteFirst(h, bytes) ==
    IF h \notin DOMAIN store /\ h \notin DOMAIN firstw
    THEN (h :> bytes) @@ firstw
    ELSE firstw

OpWriteToStore ==
    /\ run.n < MaxOps
    /\ \E h \in StoreHashes, bytes \in StoreBytes, mode \in StoreModes :
          LET r == write_to_store(store, inodes, h, bytes, mode)
          IN /\ store' = r.store
             /\ inodes' = r.inodes
             /\ firstw' = NoteFirst(h, bytes)
             /\ run' = [run EXCEPT !.n = @ + 1, !.kind = "write_to_store",
                                   !.hash = h, !.err = r.err, !.arg = bytes,
                                   !.mode = mode, !.wrote = ShouldWrite(store, h)]
    /\ storeRoot' = TRUE
    /\ UNCHANGED <<tdirs, tfiles, tmp, pc, prev, stack, task, calls, snap,
                   kills, rsv,
                   links, fails, ens, par, race, tgt, res>>

OpLsTree ==
    /\ run.n < MaxOps
    /\ \E h \in StoreHashes, text \in StoreTexts \cup StoreBytes :
          LET r == ls_tree(store, inodes, h, text)
          IN /\ store' = r.store
             /\ inodes' = r.inodes
             /\ firstw' = NoteFirst(h, trim_end(text))
             /\ run' = [run EXCEPT !.n = @ + 1, !.kind = "ls_tree",
                                   !.hash = h, !.err = "", !.arg = trim_end(text)]
    /\ storeRoot' = TRUE
    /\ UNCHANGED <<tdirs, tfiles, tmp, pc, prev, stack, task, calls, snap,
                   kills, rsv,
                   links, fails, ens, par, race, tgt, res>>

NextStore == OpWriteToStore \/ OpLsTree

SpecStore == Init /\ [][NextStore]_vars

(***************************************************************************)
(* The resolver on any remote listing of at most MaxRows rows, run twice   *)
(* on the same listing.                                                    *)
(***************************************************************************)
RowPool ==
    {[hash |-> <<h>>, name |-> n] :
        h \in {"A", "B"},
        n \in {<<"v1">>, <<"refs/tags/", "v1">>, <<"refs/heads/", "v1">>,
               <<"refs/heads/", "x/", "v1">>}}

RECURSIVE ListingText(_)
\* The output of git ls-remote for the given rows: hash, tab, name, line feed.
ListingText(rows) ==
    IF rows = <<>> THEN <<>>
    ELSE rows[1].hash \o <<"\t">> \o rows[1].name \o <<"\n">>
         \o ListingText(Tail(rows))

Listings == UNION {[1..n -> RowPool] : n \in 0..MaxRows}

InitResolve ==
    /\ InitFS
    /\ ens = NoEns
    /\ par = NoPar
    /\ rsv \in {[out |-> ListingText(l), ref |-> r, got |-> <<>>] :
                   l \in Listings, r \in {<<"v1">>, <<"v2">>}}

\* run_ls_remote and get_hash on the listing
ResolveOnce ==
    /\ Len(rsv.got) < 2
    /\ ~LsRemotePanics(trim_end(rsv.out))
    /\ \E rows \in run_ls_remote(rsv.out, rsv.ref) :
          rsv' = [rsv EXCEPT !.got = Append(@, get_hash(rows))]
    /\ UNCHANGED <<storeRoot, store, inodes, tdirs, tfiles, tmp, pc, run, prev,
                   stack, task, calls, snap, kills, firstw,
                   links, fails, ens, par, race, tgt, res>>

NextResolve == ResolveOnce

SpecResolve == InitResolve /\ [][NextResolve]_vars

(***************************************************************************)
(* store.rs: the process-wide STORE_PATH and ensure_cln_store_path, called *)
(* up to MaxCalls times with or without an override, with or without a     *)
(* discoverable home directory.  Paths are lists of components.            *)
(***************************************************************************)
HomeDir == <<"home", "u">>
Overrides == {<<"tmp", "s">>, <<"srv", "new", "s">>}

\* The directories that may exist before the first call.
DirSets ==
    {Prefixes(<<"tmp", "s">>) \cup Prefixes(HomeDir),
     Prefixes(<<"tmp", "s">>) \cup Prefixes(HomeDir \o <<".cache">>),
     Prefixes(<<"tmp", "s">>) \cup Prefixes(HomeDir \o <<".cache", ".cln-store">>)}

\* ensure_cln_store_path that looks for the home directory first, and
\* fails without one even when an override is given.
ensure_home_first(e, store_path, made) ==
    LET b == [e EXCEPT !.n = @ + 1, !.arg = store_path, !.before = e.path,
                       !.mk = "none"]
    IN IF ~e.home.some THEN [b EXCEPT !.ret = "HomeDirError"]
       ELSE IF store_path.some THEN [b EXCEPT !.path = store_path, !.ret = "Ok"]
       ELSE [b EXCEPT !.path = Some(e.home.val \o <<".cache", ".cln-store">>),
                      !.ret = "Ok"]

\* ensure_cln_store_path(store_path).  made is the number of components
\* create_dir_all gets to create before it stops: all of them when it
\* succeeds, fewer when it fails.
ensure_cln_store_path(e, store_path, made) ==
    LET b == [e EXCEPT !.n = @ + 1, !.arg = store_path, !.before = e.path,
                       !.mk = "none"]
    IN IF store_path.some
       THEN [b EXCEPT !.path = store_path, !.ret = "Ok"]
       ELSE IF e.home.some
       THEN LET cln_store == e.home.val \o <<".cache", ".cln-store">>
            IN IF cln_store \in e.dirs
               THEN [b EXCEPT !.path = Some(cln_store), !.ret = "Ok"]
               ELSE IF made = Len(cln_store)
               THEN [b EXCEPT !.dirs = @ \cup Prefixes(cln_store),
                              !.path = Some(cln_store), !.ret = "Ok",
                              !.mk = "ok"]
               ELSE [b EXCEPT !.dirs = @ \cup Prefixes(SubSeq(cln_store, 1, made)),
                              !.ret = "CreateDirError", !.mk = "failed"]
       ELSE [b EXCEPT !.ret = "HomeDirError"]

InitEnsure ==
    /\ InitFS
    /\ rsv = NoRsv
    /\ par = NoPar
    /\ ens \in {[NoEns EXCEPT !.dirs = d, !.home = h] :
                   d \in DirSets, h \in {None, Some(HomeDir)}}

\* One call of ensure_cln_store_path.  create_dir_all creates the missing
\* components from the top; it can fail at any of them.
EnsureStorePath ==
    /\ ens.n < MaxCalls
    /\ \E store_path \in {None} \cup {Some(o) : o \in Overrides},
          made \in 0..(Len(HomeDir) + 2) :
          ens' = ensure_cln_store_path(ens, store_path, made)
    /\ UNCHANGED <<storeRoot, store, inodes, tdirs, tfiles, tmp, pc, run, prev,
                   stack, task, calls, snap, kills, firstw, rsv, links, fails,
                   par, race, tgt, res>>

\* The files that lie below the directories: one object, h1, in /tmp/s.
StoredFiles == {<<"tmp", "s", "h1">>}

\* is_content_stored(hash): STORE_PATH is read, and the existence of the
\* file of that name below it is the answer.
is_content_stored(e, hash) ==
    IF ~e.path.some THEN "NoMatchingReferenceError"
    ELSE IF Append(e.path.val, hash) \in StoredFiles THEN "Ok(true)"
    ELSE "Ok(false)"

\* One call of is_content_stored.
IsContentStored ==
    /\ \E hash \in {"h1", "h2"} :
          ens' = [ens EXCEPT !.seen = is_content_stored(ens, hash)]
    /\ UNCHANGED <<storeRoot, store, inodes, tdirs, tfiles, tmp, pc, run, prev,
                   stack, task, calls, snap, kills, firstw, rsv, links, fails,
                   par, race, tgt, res>>

NextEnsure == EnsureStorePath \/ IsContentStored

SpecEnsure == InitEnsure /\ [][NextEnsure]_vars

(***************************************************************************)
(* The parallel walk of src/src/main.rs: tree.rows.par_iter().for_each     *)
(* runs the blob rows of one listing as tasks of a thread pool, whose      *)
(* steps interleave in any order.  A task panics where the code unwraps    *)
(* an error.                                                               *)
(***************************************************************************)
\* The rows a listing is made of: two names for the blob b1 and one for b2.
ParRows ==
    {<<"1", "0", "0", "6", "4", "4", " ", "blob", " ", "b1", "\t", "a">>,
     <<"1", "0", "0", "6", "4", "4", " ", "blob", " ", "b1", "\t", "b">>,
     <<"1", "0", "0", "7", "5", "5", " ", "blob", " ", "b2", "\t", "c">>}

\* The listings of one to MaxTasks rows, as sequences without repetition.
ParListings ==
    {l \in UNION {[1..n -> ParRows] : n \in 1..MaxTasks} :
        \A j, k \in 1..Len(l) : j # k => l[j] # l[k]}

ParHashes == {<<"b1">>, <<"b2">>}

\* Whether the process may open the file for writing: the owner's write
\* bit, which the superuser does not need.
CanWrite(i, ino, root) == root \/ (i[ino].perm \div 128) % 2 = 1

ParEnded == {"done", "panic"}

\* The walk begins: a listing, the path of its tree below the target, a
\* store that is empty or holds b2 from an earlier checkout, and whether
\* the process runs as the superuser.  The target directory exists.
ParStart ==
    /\ par.n = 0
    /\ \E l \in ParListings, p \in {<<".">>, <<"d">>}, root \in BOOLEAN,
          have \in SUBSET {<<"b2">>} :
          LET w == IF have = {} THEN [store |-> store, inodes |-> inodes, err |-> ""]
                   ELSE write_to_store(store, inodes, <<"b2">>,
                                       CatFileStdout(<<"b2">>),
                                       <<"1", "0", "0", "7", "5", "5">>)
          IN /\ store' = w.store
             /\ inodes' = w.inodes
             /\ tdirs' = [tdirs EXCEPT !["out1"] = {<<>>}]
             /\ snap' = [FS EXCEPT !.storeRoot = TRUE, !.store = w.store,
                                   !.inodes = w.inodes,
                                   !.tdirs = [tdirs EXCEPT !["out1"] = {<<>>}]]
             /\ par' = [n |-> Len(l),
                        rows |-> [k \in 1..Len(l) |-> TreeRow_new(l[k])],
                        path |-> p,
                        root |-> root,
                        pcs |-> [k \in 1..Len(l) |-> "check"],
                        passed |-> [h \in ParHashes |-> {}],
                        writes |-> [h \in ParHashes |-> 0],
                        trunc |-> {}]
    /\ storeRoot' = TRUE
    /\ UNCHANGED <<tfiles, tmp, pc, run, prev, stack, task, calls, kills,
                   firstw, rsv, links, fails, ens, race, tgt, res>>

\* write_to_store: store_path.exists()
ParCheck ==
    \E t \in 1..par.n :
        /\ par.pcs[t] = "check"
        /\ par' = [par EXCEPT
                     !.pcs[t] = IF ShouldWrite(store, par.rows[t].name)
                                THEN "create" ELSE "dircheck",
                     !.passed[par.rows[t].name] =
                         IF par.rows[t].name \in DOMAIN store THEN @ ELSE @ \cup {t}]
        /\ UNCHANGED <<storeRoot, store, inodes, tdirs, tfiles, tmp, pc, run,
                       prev, stack, task, calls, snap, kills, firstw, rsv,
                       links, fails, ens, race, tgt, res>>

\* write_to_store: File::create(&store_path), which creates the file or
\* truncates the one that is there, and fails on a file the process may
\* not write.
ParCreate ==
    \E t \in 1..par.n :
        LET h == par.rows[t].name
        IN /\ par.pcs[t] = "create"
           /\ IF h \in DOMAIN store /\ ~CanWrite(inodes, store[h], par.root)
              THEN /\ par' = [par EXCEPT !.pcs[t] = "panic"]
                   /\ UNCHANGED <<store, inodes>>
              ELSE /\ store' = CreateFile(store, inodes, h).store
                   /\ inodes' = CreateFile(store, inodes, h).inodes
                   /\ par' = [par EXCEPT
                                !.pcs[t] = "fill",
                                !.trunc = IF h \in DOMAIN store
                                             /\ inodes[store[h]].data = CatFileStdout(h)
                                          THEN @ \cup {h} ELSE @]
           /\ UNCHANGED <<storeRoot, tdirs, tfiles, tmp, pc, run, prev, stack,
                          task, calls, snap, kills, firstw, rsv, links, fails,
                          ens, race, tgt, res>>

\* write_to_store: git cat-file -p writes the blob into the open file.
ParFill ==
    \E t \in 1..par.n :
        LET h == par.rows[t].name
        IN /\ par.pcs[t] = "fill"
           /\ inodes' = WriteAll(store, inodes, h, CatFileStdout(h))
           /\ par' = [par EXCEPT !.pcs[t] = "chmod", !.writes[h] = @ + 1]
           /\ UNCHANGED <<storeRoot, store, tdirs, tfiles, tmp, pc, run, prev,
                          stack, task, calls, snap, kills, firstw, rsv, links,
                          fails, ens, race, tgt, res>>

\* write_to_store: the mode is parsed and the permissions are set.
ParChmod ==
    \E t \in 1..par.n :
        LET m == ParseMode(par.rows[t].mode)
        IN /\ par.pcs[t] = "chmod"
           /\ IF m.ok
              THEN /\ inodes' = set_permissions(store, inodes, par.rows[t].name,
                                                StoredPerm(m.val))
                   /\ par' = [par EXCEPT !.pcs[t] = "dircheck"]
              ELSE /\ par' = [par EXCEPT !.pcs[t] = "panic"]
                   /\ UNCHANGED inodes
           /\ UNCHANGED <<storeRoot, store, tdirs, tfiles, tmp, pc, run, prev,
                          stack, task, calls, snap, kills, firstw, rsv, links,
                          fails, ens, race, tgt, res>>

\* The target path of the row of task t.
ParKey(t) == Components(Path_join(par.path, par.rows[t].path))

\* target_dir.exists()
ParDirCheck ==
    \E t \in 1..par.n :
        /\ par.pcs[t] = "dircheck"
        /\ par' = [par EXCEPT !.pcs[t] = IF Components(par.path) \in tdirs["out1"]
                                         THEN "filecheck" ELSE "mkdir"]
        /\ UNCHANGED <<storeRoot, store, inodes, tdirs, tfiles, tmp, pc, run,
                       prev, stack, task, calls, snap, kills, firstw, rsv,
                       links, fails, ens, race, tgt, res>>

\* std::fs::create_dir_all(&target_dir), which takes a directory that is
\* there already for a success.
ParMkdir ==
    \E t \in 1..par.n :
        /\ par.pcs[t] = "mkdir"
        /\ tdirs' = [tdirs EXCEPT !["out1"] = @ \cup Prefixes(Components(par.path))]
        /\ par' = [par EXCEPT !.pcs[t] = "filecheck"]
        /\ UNCHANGED <<storeRoot, store, inodes, tfiles, tmp, pc, run, prev,
                       stack, task, calls, snap, kills, firstw, rsv, links,
                       fails, ens, race, tgt, res>>

\* target_file.exists()
ParFileCheck ==
    \E t \in 1..par.n :
        /\ par.pcs[t] = "filecheck"
        /\ par' = [par EXCEPT !.pcs[t] =
                      IF SkipExisting(tdirs["out1"], tfiles["out1"], ParKey(t))
                      THEN "done" ELSE "link"]
        /\ UNCHANGED <<storeRoot, store, inodes, tdirs, tfiles, tmp, pc, run,
                       prev, stack, task, calls, snap, kills, firstw, rsv,
                       links, fails, ens, race, tgt, res>>

\* std::fs::hard_link, which fails when the store file is missing or the
\* target path is taken.
ParLink ==
    \E t \in 1..par.n :
        /\ par.pcs[t] = "link"
        /\ IF \/ par.rows[t].name \notin DOMAIN store
              \/ exists(tdirs["out1"], tfiles["out1"], ParKey(t))
           THEN /\ par' = [par EXCEPT !.pcs[t] = "panic"]
                /\ UNCHANGED <<tfiles, links>>
           ELSE /\ tfiles' = [tfiles EXCEPT !["out1"] =
                                 hard_link(@, ParKey(t), store[par.rows[t].name])]
                /\ links' = links \cup {[target |-> "out1", key |-> ParKey(t),
                                         hash |-> par.rows[t].name]}
                /\ par' = [par EXCEPT !.pcs[t] = "done"]
        /\ UNCHANGED <<storeRoot, store, inodes, tdirs, tmp, pc, run, prev,
                       stack, task, calls, snap, kills, firstw, rsv, fails,
                       ens, race, tgt, res>>

NextPar ==
    \/ ParStart
    \/ ParCheck
    \/ ParCreate
    \/ ParFill
    \/ ParChmod
    \/ ParDirCheck
    \/ ParMkdir
    \/ ParFileCheck
    \/ ParLink

SpecPar == Init /\ [][NextPar]_vars

(***************************************************************************)
(* The directory creations of concurrent cln processes that share a store  *)
(* root and check out into the same target directory.  Each process goes   *)
(* through the three places where the code creates a directory after       *)
(* finding it missing: get_cln_store_path (the store root), cln (the       *)
(* target directory) and write_blob (the directory of a subtree).  The     *)
(* steps of the processes interleave in any order.                         *)
(***************************************************************************)
MaxProcs == 2

StoreRootDir == <<"home", ".cln-store">>
TargetDir == <<"out">>
SubDir == <<"out", "d">>

\* fs::create_dir: one directory, whose parent must exist and which must
\* not exist itself.
create_dir(dirs, p) ==
    IF p \in dirs THEN [dirs |-> dirs, err |-> "AlreadyExists"]
    ELSE IF SubSeq(p, 1, Len(p) - 1) \notin dirs
    THEN [dirs |-> dirs, err |-> "NotFound"]
    ELSE [dirs |-> dirs \cup {p}, err |-> ""]

\* fs::create_dir_all: the directory with its missing parents; a directory
\* that is there already is a success.
create_dir_all(dirs, p) == [dirs |-> dirs \cup Prefixes(p), err |-> ""]

\* The processes begin.  The home directory exists; the store root, the
\* target directory and its subdirectory may exist from earlier checkouts.
RaceStart ==
    /\ race.n = 0
    /\ \E have \in {{}, {StoreRootDir}, {StoreRootDir, TargetDir},
                    {StoreRootDir, TargetDir, SubDir}, {TargetDir}} :
          race' = [n |-> MaxProcs,
                   dirs |-> {<<>>, <<"home">>} \cup have,
                   pcs |-> [p \in 1..MaxProcs |-> "root_check"],
                   err |-> [p \in 1..MaxProcs |-> ""],
                   saw |-> [p \in 1..MaxProcs |-> {}]]
    /\ UNCHANGED <<storeRoot, store, inodes, tdirs, tfiles, tmp, pc, run, prev,
                   stack, task, calls, snap, kills, firstw, rsv, links, fails,
                   ens, par, tgt, res>>

\* An existence test before a creation: cln_store.exists(),
\* target_dir.exists().
RaceCheck(p, at, d, create, next) ==
    /\ race.pcs[p] = at
    /\ race' = IF d \in race.dirs
               THEN [race EXCEPT !.pcs[p] = next]
               ELSE [race EXCEPT !.pcs[p] = create, !.saw[p] = @ \cup {d}]

\* A creation with create_dir, whose error ends the process with
\* CreateDirError.
RaceCreate(p, at, d, next) ==
    /\ race.pcs[p] = at
    /\ LET c == create_dir(race.dirs, d)
       IN race' = IF c.err = ""
                  THEN [race EXCEPT !.dirs = c.dirs, !.pcs[p] = next]
                  ELSE [race EXCEPT !.pcs[p] = "error",
                                    !.err[p] = <<"CreateDirError", d>>]

RaceFrame ==
    UNCHANGED <<storeRoot, store, inodes, tdirs, tfiles, tmp, pc, run, prev,
                stack, task, calls, snap, kills, firstw, rsv, links, fails,
                ens, par, tgt, res>>

\* get_cln_store_path: if !cln_store.exists()
RaceRootCheck ==
    /\ \E p \in 1..race.n :
          RaceCheck(p, "root_check", StoreRootDir, "root_create", "target_check")
    /\ RaceFrame

\* get_cln_store_path: create_dir(&cln_store)
RaceRootCreate ==
    /\ \E p \in 1..race.n :
          RaceCreate(p, "root_create", StoreRootDir, "target_check")
    /\ RaceFrame

\* cln: if !target_dir.exists()
RaceTargetCheck ==
    /\ \E p \in 1..race.n :
          RaceCheck(p, "target_check", TargetDir, "target_create", "sub_check")
    /\ RaceFrame

\* cln: create_dir(&target_dir)
RaceTargetCreate ==
    /\ \E p \in 1..race.n :
          RaceCreate(p, "target_create", TargetDir, "sub_check")
    /\ RaceFrame

\* write_blob: if !target_dir.exists(), for a blob of the subtree d
RaceSubCheck ==
    /\ \E p \in 1..race.n :
          RaceCheck(p, "sub_check", SubDir, "sub_create", "done")
    /\ RaceFrame

\* write_blob: create_dir_all(&target_dir)
RaceSubCreate ==
    /\ \E p \in 1..race.n :
          /\ race.pcs[p] = "sub_create"
          /\ LET c == create_dir_all(race.dirs, SubDir)
             IN race' = IF c.err = ""
                        THEN [race EXCEPT !.dirs = c.dirs, !.pcs[p] = "done"]
                        ELSE [race EXCEPT !.pcs[p] = "error",
                                          !.err[p] = <<"CreateDirAllError", SubDir>>]
    /\ RaceFrame

NextRace ==
    \/ RaceStart
    \/ RaceRootCheck
    \/ RaceRootCreate
    \/ RaceTargetCheck
    \/ RaceTargetCreate
    \/ RaceSubCheck
    \/ RaceSubCreate

SpecRace == Init /\ [][NextRace]_vars

(***************************************************************************)
(* The target directory of a checkout: cln(repo, dir, branch) with any     *)
(* repository locator made of at most MaxPieces pieces, with or without a  *)
(* directory argument.  Here the atoms of a string are its characters.     *)
(***************************************************************************)
MaxPieces == 3

Pieces == {<<"m", "y">>, <<".", "g", "i", "t">>, <<"/">>, <<"h", "u", "b">>}

RECURSIVE Concat(_)
Concat(ps) == IF ps = <<>> THEN <<>> ELSE ps[1] \o Concat(Tail(ps))

Locators == {Concat(ps) : ps \in UNION {[1..n -> Pieces] : n \in 1..MaxPieces}}

RECURSIVE replace(_, _)
\* str::replace(pat, ""): the string without the occurrences of pat, which
\* are found from the left and do not overlap.
replace(s, pat) ==
    IF Len(s) < Len(pat) THEN s
    ELSE IF SubSeq(s, 1, Len(pat)) = pat
    THEN replace(SubSeq(s, Len(pat) + 1, Len(s)), pat)
    ELSE <<s[1]>> \o replace(Tail(s), pat)

\* get_repo_name: the last piece of repo.split('/'), with ".git" replaced
\* by nothing.
get_repo_name(repo) ==
    LET parts == split(repo, "/")
    IN replace(parts[Len(parts)], <<".", "g", "i", "t">>)

\* let target_dir = dir.map_or_else(|| get_repo_name(repo), |dir| dir)
ResolveTarget ==
    /\ tgt.n = 0
    /\ \E repo \in Locators, dir \in {None, Some(<<"o", "u", "t">>)} :
          tgt' = [n |-> 1, repo |-> repo, dir |-> dir,
                  out |-> IF dir.some THEN dir.val ELSE get_repo_name(repo)]
    /\ UNCHANGED <<storeRoot, store, inodes, tdirs, tfiles, tmp, pc, run, prev,
                   stack, task, calls, snap, kills, firstw, rsv, links, fails,
                   ens, par, race, res>>

NextName == ResolveTarget

SpecName == Init /\ [][NextName]_vars

(***************************************************************************)
(* Checkouts with a store in which the listing of a tree was left          *)
(* incomplete by a write that was cut short (fs::write is not atomic): the *)
(* text ends within a row.  The store keeps an entry as it is once it      *)
(* exists, so every later checkout of the tree parses this text.           *)
(***************************************************************************)
RECURSIVE CutRow(_)
\* The longest beginning of a listing whose last line lacks its hash.
CutRow(text) ==
    LET ls == lines(text)
    IN IF text = <<>> \/ Len(split_whitespace(ls[Len(ls)])) < 3 THEN text
       ELSE CutRow(SubSeq(text, 1, Len(text) - 1))

InitBad ==
    /\ storeRoot = TRUE
    /\ \E h \in {<<"c1">>, <<"t1">>} :
          /\ store = (h :> Ino("store", h))
          /\ inodes = (Ino("store", h) :>
                          [data |-> CutRow(trim_end(LsTreeStdout(h))),
                           perm |-> 6 * 64 + 4 * 8 + 4])
    /\ tdirs = [t \in Targets |-> {}]
    /\ tfiles = [t \in Targets |-> <<>>]
    /\ tmp = 0
    /\ pc = "idle"
    /\ run = NoRun
    /\ prev = NoRun
    /\ stack = <<>>
    /\ task = NoTask
    /\ calls = NoCalls
    /\ snap = [storeRoot |-> FALSE, store |-> <<>>, inodes |-> <<>>,
               tdirs |-> [t \in Targets |-> {}],
               tfiles |-> [t \in Targets |-> <<>>], tmp |-> 0]
    /\ kills = 0
    /\ firstw = <<>>
    /\ links = {}
    /\ fails = NoFails
    /\ rsv = NoRsv
    /\ ens = NoEns
    /\ par = NoPar
    /\ race = NoRace
    /\ tgt = NoTgt
    /\ res = NoRes

SpecBad == InitBad /\ [][Next]_vars

(***************************************************************************)
(* The two walkers on the same input: a store that holds the listing of a  *)
(* tree and everything reachable from it, and a target directory.  One     *)
(* walker runs to its end; the target directory is put back as it was; the *)
(* other walker runs.                                                      *)
(***************************************************************************)
RECURSIVE Populate(_, _, _)
\* The store after ls_tree and write_to_store have stored the given rows
\* and, for the tree rows, the rows of their listings.
Populate(s, i, todo) ==
    IF todo = {} THEN [store |-> s, inodes |-> i]
    ELSE LET r == CHOOSE x \in todo : TRUE
         IN IF r.otype = <<"blob">>
            THEN LET w == write_to_store(s, i, r.name, CatFileStdout(r.name), r.mode)
                 IN Populate(w.store, w.inodes, todo \ {r})
            ELSE IF r.otype = <<"tree">>
            THEN LET t == ls_tree(s, i, r.name, LsTreeStdout(r.name))
                 IN Populate(t.store, t.inodes,
                             (todo \ {r}) \cup Tree_new(t.text, <<".">>).rows)
            ELSE Populate(s, i, todo \ {r})

\* The target directories a walk may be given: an empty one, one in which
\* an earlier walk has linked the blob b1 at the path "a", and one that
\* holds a file of the caller's at that path.
WalkTargets ==
    {[dirs |-> {<<>>}, files |-> <<>>, inodes |-> <<>>],
     [dirs |-> {<<>>}, files |-> (<<<<"a">>>> :> Ino("store", <<"b1">>)),
      inodes |-> <<>>],
     [dirs |-> {<<>>}, files |-> (<<<<"a">>>> :> Ino("user", <<"a">>)),
      inodes |-> (Ino("user", <<"a">>) :>
                     [data |-> <<"mine">>, perm |-> 6 * 64 + 4 * 8 + 4])]}

\* The call of walk: cln hands the live walker the listing ls_tree read
\* from the store, the store-only walker the one Tree::from_hash read.
WalkBegin(walker, h, text) ==
    /\ run' = [NoRun EXCEPT !.n = res.n + 1, !.kind = "walk", !.hash = h,
                            !.target = "out1", !.walked = TRUE,
                            !.path = IF walker = "hash" THEN "cached" ELSE "fetch"]
    /\ stack' = <<Frame(Tree_new(IF walker = "hash" THEN trim_end(text) ELSE text,
                                 <<".">>))>>
    /\ pc' = "walk"

\* The first walk begins, with either walker.
WalkFirst ==
    /\ pc = "idle"
    /\ res.n = 0
    /\ \E h \in {<<"c1">>, <<"c2">>}, t \in WalkTargets, walker \in {"repo", "hash"} :
          LET p == Populate(<<>>, <<>>, {[NoTask.row EXCEPT !.otype = <<"tree">>,
                                                            !.name = h]})
          IN /\ store' = p.store
             /\ inodes' = t.inodes @@ p.inodes
             /\ tdirs' = [tdirs EXCEPT !["out1"] = t.dirs]
             /\ tfiles' = [tfiles EXCEPT !["out1"] = t.files]
             /\ snap' = [FS EXCEPT !.storeRoot = TRUE, !.store = p.store,
                                   !.inodes = t.inodes @@ p.inodes,
                                   !.tdirs = [tdirs EXCEPT !["out1"] = t.dirs],
                                   !.tfiles = [tfiles EXCEPT !["out1"] = t.files]]
             /\ WalkBegin(walker, h, p.inodes[p.store[h]].data)
    /\ storeRoot' = TRUE
    /\ UNCHANGED <<tmp, prev, task, calls, kills, firstw, rsv, links, fails,
                   ens, par, race, tgt, res>>

\* The first walk has returned: its outcome is noted, the target directory
\* is put back, and the other walker is called.
WalkSecond ==
    /\ pc \in {"done", "error", "panic"}
    /\ run.kind = "walk"
    /\ res.n = 0
    /\ res' = [n |-> 1, walker |-> WalkerOf(run.path), pc |-> pc,
               tdirs |-> tdirs, tfiles |-> tfiles, store |-> store,
               inodes |-> inodes]
    /\ tdirs' = snap.tdirs
    /\ tfiles' = snap.tfiles
    /\ prev' = [run EXCEPT !.end = pc]
    /\ task' = NoTask
    /\ WalkBegin(IF WalkerOf(run.path) = "repo" THEN "hash" ELSE "repo",
                 run.hash, inodes[store[run.hash]].data)
    /\ UNCHANGED <<storeRoot, store, inodes, tmp, calls, snap, kills, firstw,
                   rsv, links, fails, ens, par, race, tgt>>

NextWalk ==
    \/ WalkFirst
    \/ WalkSecond
    \/ WalkBlob
    \/ BlobMkdir
    \/ BlobLink
    \/ WalkTree
    \/ WalkPop
    \/ WalkEnd

SpecWalk == Init /\ [][NextWalk]_vars

(***************************************************************************)
(* What the properties below speak about.                                  *)
(***************************************************************************)
\* The bytes of the store entry named h.
Data(h) == inodes[store[h]].data

\* The complete content the backend has for h: the trimmed listing of a
\* tree (or commit), the bytes of a blob.
Complete(h) ==
    IF LsTreeStdout(h) # <<>> THEN trim_end(LsTreeStdout(h)) ELSE CatFileStdout(h)

RECURSIVE Entries(_, _)
\* The blob entries of the tree h, with the target path the walker gives
\* each of them, subtrees included.
Entries(h, path) ==
    LET f == Frame(Tree_new(trim_end(LsTreeStdout(h)), path))
    IN {[key |-> Components(Path_join(path, r.path)), hash |-> r.name] : r \in f.blobs}
       \cup UNION {Entries(r.name, Path_join(path, r.path)) : r \in f.trees}

\* One line of git ls-tree as git wrote it: mode, type and hash separated
\* by single spaces, then a tab, then the file name up to the line's end.
NativeRow(line) ==
    LET t == CHOOSE k \in 1..Len(line) : line[k] = "\t" /\ \A j \in 1..(k - 1) : line[j] # "\t"
        head == split(SubSeq(line, 1, t - 1), " ")
    IN [mode |-> head[1], type |-> head[2], hash |-> head[3],
        name |-> SubSeq(line, t + 1, Len(line))]

RegularModes == {<<"1", "0", "0", "6", "4", "4">>, <<"1", "0", "0", "7", "5", "5">>}

RECURSIVE NativeFiles(_, _)
\* The regular files of a native checkout of tree h below directory dir, as
\* pairs of path and bytes.
NativeFiles(h, dir) ==
    LET ls == lines(LsTreeStdout(h))
        rows == {NativeRow(ls[k]) : k \in 1..Len(ls)}
    IN {<<Append(dir, r.name), CatFileStdout(r.hash)>> :
            r \in {x \in rows : x.type = <<"blob">> /\ x.mode \in RegularModes}}
       \cup UNION {NativeFiles(r.hash, Append(dir, r.name)) :
                      r \in {x \in rows : x.type = <<"tree">>}}

\* The files below a target directory, as pairs of path and bytes.
TargetMap(t) == {<<k, inodes[tfiles[t][k]].data>> : k \in DOMAIN tfiles[t]}

\* The rows of a remote listing in the order the backend listed them.
ListedRows(out) ==
    LET ls == lines(trim_end(out))
    IN [k \in 1..Len(ls) |-> LsRemoteRow_new(ls[k])]

\* The priority class of a row name: 1 verbatim, 2 tag, 3 branch, 0 no match.
Class(name, reference) ==
    IF name = reference THEN 1
    ELSE IF name = <<"refs/tags/">> \o reference THEN 2
    ELSE IF name = <<"refs/heads/">> \o reference THEN 3
    ELSE 0

\* The positions of the matching rows of the best class present.
BestRows(out, reference) ==
    LET rows == ListedRows(out)
        m == {k \in 1..Len(rows) : Class(rows[k].name, reference) > 0}
    IN {k \in m : \A j \in m : Class(rows[k].name, reference) <= Class(rows[j].name, reference)}

\* The target holds no file but those the walkers have linked.
OnlyLinked(t) == \A k \in DOMAIN tfiles[t] : tfiles[t][k].dir = "store"

\* The given backend call of the current invocation has failed that way.
Failed(call, kind) ==
    fails.n > 0 /\ fails.run = run.n /\ fails.call = call /\ fails.kind = kind

NoRowMatches(reference) ==
    BestRows(LsRemoteStdout(reference), reference) = {}

(***************************************************************************)
(* Properties.                                                             *)
(***************************************************************************)
\* C1 (write-once): once a write operation for h has stored bytes, the
\* store entry h holds the bytes of that first write after any sequence of
\* later write_to_store and ls_tree operations, whatever bytes they bring.
C1_WriteOnce ==
    \A h \in DOMAIN firstw : h \in DOMAIN store /\ Data(h) = firstw[h]

\* After write_to_store has stored a blob under h1, ls_tree has been called
\* for h1 with other bytes.
C1_Witness ==
    /\ run.n = 2
    /\ run.kind = "ls_tree"
    /\ run.hash = <<"h1">>
    /\ <<"h1">> \in DOMAIN firstw
    /\ firstw[<<"h1">>] = <<"x">>
    /\ run.arg # <<"x">>
    /\ run.arg # <<>>
    /\ StoredPerm(100644) = inodes[store[<<"h1">>]].perm

\* C2 (resumability): when a checkout is killed on the fetch path, the
\* following uninterrupted checkout of the same reference into the same
\* target, with no backend call failing, ends in Done with every blob
\* entry of the tree in the target, holding its complete content.
C2_Resumable ==
    (/\ run.kind = "cln"
     /\ fails.n = 0
     /\ prev.kind = "cln"
     /\ prev.end = "killed"
     /\ prev.path = "fetch"
     /\ prev.ref = run.ref
     /\ prev.target = run.target
     /\ pc \in {"done", "error", "panic"})
    => /\ pc = "done"
       /\ \A e \in Entries(run.hash, <<".">>) :
             /\ e.key \in DOMAIN tfiles[run.target]
             /\ inodes[tfiles[run.target][e.key]].data = CatFileStdout(e.hash)

\* C3 (no partial entry): every entry that exists in the store holds the
\* complete bytes for its hash, in every state.
C3_NoPartialEntry ==
    \A h \in DOMAIN store : Data(h) = Complete(h)

\* C4 (idempotent materialize): a second run of the walker with the same
\* listing, source and target, after a first run that returned without
\* error, meets no error and leaves the target directories and the store
\* as the first run left them.
C4_Idempotent ==
    (run.kind = "rewalk" /\ prev.end = "done")
    => pc \notin {"error", "panic"} /\ FS = snap

\* Both walkers have been run a second time to the end.
C4_Witness ==
    /\ run.kind = "rewalk"
    /\ prev.end = "done"
    /\ pc = "done"
    /\ run.hash = <<"c1">>
    /\ run.path = "cached"
    /\ prev.kind = "cln"
    /\ Cardinality(DOMAIN tfiles[run.target]) = 2

\* C5 (dedup): after two checkouts that ended in Done, into targets that
\* hold no file of the caller's, a blob hash that occurs in both trees has
\* its store entry, and every target file made for it in either checkout is
\* the inode of that store entry.
C5_Dedup ==
    (/\ run.kind = "cln"
     /\ pc = "done"
     /\ prev.kind = "cln"
     /\ prev.end = "done"
     /\ OnlyLinked(prev.target)
     /\ OnlyLinked(run.target))
    => \A e1 \in Entries(prev.hash, <<".">>), e2 \in Entries(run.hash, <<".">>) :
          e1.hash = e2.hash
          => /\ e1.hash \in DOMAIN store
             /\ e1.key \in DOMAIN tfiles[prev.target]
             /\ e2.key \in DOMAIN tfiles[run.target]
             /\ tfiles[prev.target][e1.key] = store[e1.hash]
             /\ tfiles[run.target][e2.key] = store[e2.hash]

\* Two references that share blob b1 have been checked out into two
\* different target directories.
C5_Witness ==
    /\ run.kind = "cln"
    /\ pc = "done"
    /\ prev.kind = "cln"
    /\ prev.end = "done"
    /\ prev.ref = <<"main">>
    /\ run.ref = <<"dev">>
    /\ prev.target # run.target
    /\ run.path = "fetch"
    /\ \E e1 \in Entries(prev.hash, <<".">>), e2 \in Entries(run.hash, <<".">>) :
          e1.hash = <<"b1">> /\ e2.hash = <<"b1">>

\* C6 (reference priority): the hash the resolver returns is that of a
\* matching row of the best priority class present in the listing:
\* verbatim before refs/tags/ before refs/heads/, wherever the rows stand.
C6_Priority ==
    \A n \in 1..Len(rsv.got) :
        rsv.got[n].ok
        => \E k \in BestRows(rsv.out, rsv.ref) :
              rsv.got[n].hash = ListedRows(rsv.out)[k].hash

\* C7 (deterministic resolution): two runs of the resolver on the same
\* listing and reference return the same result, and a hash returned is
\* that of the first row of the best priority class in listing order.
C7_Deterministic ==
    /\ Len(rsv.got) = 2 => rsv.got[1] = rsv.got[2]
    /\ \A n \in 1..Len(rsv.got) :
          rsv.got[n].ok
          => LET best == BestRows(rsv.out, rsv.ref)
                 first == CHOOSE k \in best : \A j \in best : k <= j
             IN rsv.got[n].hash = ListedRows(rsv.out)[first].hash

\* C8 (missing reference): when the remote listing was obtained and no row
\* of it matches the reference, the checkout ends right after resolution with
\* NoMatchingReferenceError, and the store, the target directories and the
\* temporary workspaces are as they were when it began.
C8_MissingReference ==
    (/\ run.kind = "cln"
     /\ NoRowMatches(run.ref)
     /\ ~Failed("ls-remote", "spawn")
     /\ pc \notin {"resolve", "killed"})
    => /\ pc = "error"
       /\ run.err = "NoMatchingReferenceError"
       /\ FS = snap

\* A checkout of a reference without a matching row has failed, with a
\* store and a target directory that earlier checkouts have filled.
C8_Witness ==
    /\ run.kind = "cln"
    /\ NoRowMatches(run.ref)
    /\ pc = "error"
    /\ run.n = 2
    /\ prev.end = "done"
    /\ DOMAIN store # {}

\* C9 (cache bypass): a checkout on the cached path, and a walk with the
\* store-only walker, makes no tree-listing, blob-read or fetch call.
C9_CacheBypass ==
    run.path = "cached"
    => calls.lstree = 0 /\ calls.catfile = 0 /\ calls.clone = 0

\* A checkout on the cached path has materialized the whole tree of c1,
\* its subtree included, into a target that did not exist.
C9_Witness ==
    /\ run.kind = "cln"
    /\ run.path = "cached"
    /\ pc = "done"
    /\ run.hash = <<"c1">>
    /\ snap.tdirs[run.target] = {}
    /\ \A e \in Entries(run.hash, <<".">>) : e.key \in DOMAIN tfiles[run.target]

\* C10 (equivalence): a checkout that ends in Done in a target directory
\* that did not exist leaves in it exactly the regular files of the tree,
\* each at its path and with its bytes, as a native checkout does.  Stated
\* for the checkouts before which no process was ever killed and no backend
\* call ever failed.
C10_Equivalence ==
    (/\ run.kind = "cln"
     /\ pc = "done"
     /\ kills = 0
     /\ fails.n = 0
     /\ snap.tdirs[run.target] = {})
    => TargetMap(run.target) = NativeFiles(run.hash, <<>>)

\* The target path of the blob entry the walker is processing.
TaskKey == Components(Path_join(task.path, task.row.path))

\* C11 (no overwrite): no step changes the inode or the bytes of a file
\* that exists in a target directory; and while the walker processes a blob
\* entry whose target path holds a file already, every step it takes for
\* the entry (short of a kill or a failed backend call) goes on without an
\* error.
C11_NoOverwrite ==
    [][/\ \A t \in Targets : \A k \in DOMAIN tfiles[t] :
             /\ k \in DOMAIN tfiles'[t]
             /\ tfiles'[t][k] = tfiles[t][k]
             /\ inodes'[tfiles[t][k]].data = inodes[tfiles[t][k]].data
       /\ (/\ pc = "walk"
           /\ task.k = "blob"
           /\ TaskKey \in DOMAIN tfiles[run.target]
           /\ kills' = kills
           /\ fails' = fails)
          => pc' = "walk"]_vars

\* A checkout of main on the fetch path into out2, where the caller's file
\* "a" was, has ended in Done: the file is the caller's still, the blob of
\* the entry "a" is in the store, and the other entry is linked.
C11_Witness ==
    /\ run.kind = "cln"
    /\ run.ref = <<"main">>
    /\ run.target = "out2"
    /\ run.path = "fetch"
    /\ pc = "done"
    /\ <<<<"a">>>> \in DOMAIN tfiles["out2"]
    /\ tfiles["out2"][<<<<"a">>>>] = Ino("user", <<"a">>)
    /\ inodes[Ino("user", <<"a">>)].data = <<"mine">>
    /\ <<"b1">> \in DOMAIN store
    /\ [target |-> "out2", key |-> <<<<"d">>, <<"f">>>>, hash |-> <<"b2">>] \in links

\* C12 (hard-link sharing): every file a walker has created in a target
\* directory for a blob entry with hash h is, in every state, the inode of
\* the store entry named h: one node, so the same bytes and the same
\* permission bits.
C12_HardLinkShared ==
    \A l \in links :
        /\ l.hash \in DOMAIN store
        /\ l.key \in DOMAIN tfiles[l.target]
        /\ tfiles[l.target][l.key] = store[l.hash]
        /\ inodes[tfiles[l.target][l.key]] = inodes[store[l.hash]]

\* The blob b1 has been linked into both target directories, at "a" for
\* main and at "p q" for dev, and its store entry is complete and read-only.
C12_Witness ==
    /\ [target |-> "out1", key |-> <<<<"a">>>>, hash |-> <<"b1">>] \in links
    /\ \E k \in DOMAIN tfiles["out2"] :
          [target |-> "out2", key |-> k, hash |-> <<"b1">>] \in links
    /\ Data(<<"b1">>) = CatFileStdout(<<"b1">>)
    /\ inodes[store[<<"b1">>]].perm = StoredPerm(100644)
    /\ pc = "done"

\* C13 (store root exists): whenever ensure_cln_store_path has returned Ok,
\* with an override or without one, STORE_PATH holds a path and the
\* directory at that path exists.
C13_StoreRootExists ==
    (ens.n > 0 /\ ens.ret = "Ok")
    => ens.path.some /\ ens.path.val \in ens.dirs

\* C14 (store root resolution): with an override the call returns Ok and
\* STORE_PATH is the override, with or without a home directory; without
\* an override and without a home directory, or when the creation of the
\* directory fails, it returns an error (HomeDirError, CreateDirError) and
\* STORE_PATH is what it was before the call.
C14_Resolution ==
    ens.n > 0
    => /\ ens.arg.some => (ens.ret = "Ok" /\ ens.path = ens.arg)
       /\ (~ens.arg.some /\ ~ens.home.some)
          => (ens.ret = "HomeDirError" /\ ens.path = ens.before)
       /\ ens.mk = "failed"
          => (ens.ret = "CreateDirError" /\ ens.path = ens.before)

\* After a call with an override and no home directory has set STORE_PATH, a
\* call without an override has failed and left it.
C14_Witness ==
    /\ ens.n = 2
    /\ ~ens.home.some
    /\ ~ens.arg.some
    /\ ens.ret = "HomeDirError"
    /\ ens.before = Some(<<"srv", "new", "s">>)
    /\ ens.path = ens.before

\* The creation of the default directory has failed half way, after a call
\* with an override had set STORE_PATH.
C14_WitnessCreate ==
    /\ ens.n = 2
    /\ ens.mk = "failed"
    /\ ens.ret = "CreateDirError"
    /\ ens.before = Some(<<"tmp", "s">>)
    /\ ens.path = ens.before
    /\ HomeDir \o <<".cache">> \in ens.dirs

\* The steps of cln that may follow one another: ResolveReference (resolve),
\* CheckCache (check), CachedPath (cached_tree, mkdir, walk), FetchPath
\* (fetch, ls_tree, mkdir, walk, close), Done, and the error ends.
StepsAfter(p) ==
    CASE p = "resolve" -> {"check", "error", "panic"}
      [] p = "check" -> {"cached_tree", "fetch"}
      [] p = "cached_tree" -> {"mkdir", "error", "panic"}
      [] p = "fetch" -> {"ls_tree", "error"}
      [] p = "ls_tree" -> {"mkdir", "error", "panic"}
      [] p = "mkdir" -> {"walk"}
      [] p = "walk" -> {"close", "done", "error", "panic"}
      [] p = "close" -> {"done", "error"}
      [] OTHER -> {}

\* C15 (orchestrator state machine): a run of cln begins, with its target
\* resolved, at ResolveReference, goes on to CheckCache, then into
\* CachedPath iff the resolved hash is in the store at CheckCache and into
\* FetchPath otherwise, and ends in Done or in an error reached from the
\* step that failed; it never returns to a step it has left, never leaves
\* the path it has taken, and takes no step after an end.  (A process that
\* is killed stops where it is.)
C15_StateMachine ==
    [][run'.kind = "cln"
       => /\ run'.n # run.n => (pc \in Ended /\ pc' = "resolve")
          /\ run'.n = run.n
             => /\ pc \in Ended => pc' = pc
                /\ pc' # pc => pc' \in StepsAfter(pc) \cup {"killed"}
                /\ (pc = "check" /\ pc' # "killed")
                   => (pc' = "cached_tree" <=> run.hash \in DOMAIN store)
                /\ run.path # "none" => run'.path = run.path
                /\ pc' \in {"fetch", "ls_tree", "close"} => run'.path = "fetch"
                /\ pc' = "cached_tree" => run'.path = "cached"
                /\ pc' = "done" => pc = (IF run.path = "fetch" THEN "close" ELSE "walk")]_vars

\* A run on the cached path has ended in Done after a run on the fetch path
\* that ended in an error of its walk.
C15_Witness ==
    /\ run.kind = "cln"
    /\ run.n = 2
    /\ run.path = "cached"
    /\ pc = "done"
    /\ prev.kind = "cln"
    /\ prev.path = "fetch"
    /\ prev.end = "error"
    /\ prev.walked

\* The target t holds every blob entry of the tree h as a link to the store
\* entry of its hash, with the bytes the backend has for it.
Materialized(t, h) ==
    \A e \in Entries(h, <<".">>) :
        /\ e.key \in DOMAIN tfiles[t]
        /\ e.hash \in DOMAIN store
        /\ tfiles[t][e.key] = store[e.hash]
        /\ Data(e.hash) = CatFileStdout(e.hash)

\* C16 (cleanup failure): when the removal of the temporary workspace fails
\* after the walk has returned, cln returns TempDirCloseError and the store
\* and the target directories stay exactly as the walk left them, that is,
\* as a successful run leaves them; when nothing else has gone wrong before,
\* the whole tree is materialized in the target.
C16_CleanupFailure ==
    [][(pc = "close" /\ pc' = "error")
       => /\ run'.err = "TempDirCloseError"
          /\ store' = store
          /\ inodes' = inodes
          /\ tdirs' = tdirs
          /\ tfiles' = tfiles
          /\ (kills = 0 /\ fails.n = 0 /\ OnlyLinked(run.target))
             => Materialized(run.target, run.hash)]_vars

\* The removal of the workspace has failed after main was materialized, with
\* its subtree; the workspace is still there.
C16_Witness ==
    /\ run.kind = "cln"
    /\ pc = "error"
    /\ run.err = "TempDirCloseError"
    /\ Failed("close", "close")
    /\ run.ref = <<"main">>
    /\ Materialized(run.target, run.hash)
    /\ tmp = 1
    /\ Cardinality(DOMAIN tfiles[run.target]) = 2

\* The errors of the code that report a failed backend invocation.
BackendInvocationErrors == {"CommandSpawnError", "GitCloneError"}

\* C17 (failed remote listing): when the call of git ls-remote has failed,
\* by not being spawned or by a non-zero exit, the run ends at the
\* resolution with a backend-invocation error: no hash is resolved and the
\* error is not NoMatchingReferenceError.
C17_FailedListing ==
    (/\ run.kind = "cln"
     /\ Failed("ls-remote", "spawn") \/ Failed("ls-remote", "exit"))
    => /\ pc = "error"
       /\ run.err \in BackendInvocationErrors
       /\ run.hash = <<>>

\* C18 (store content integrity): every store entry holds what the backend
\* has for its hash, the trimmed listing of a tree or the bytes of a blob
\* (stated here for the states in which no entry is being written and no
\* process was killed); and when a call of git ls-tree or git cat-file has
\* failed, by not being spawned or by a non-zero exit with empty output,
\* the run ends in a backend-invocation error.
C18_StoreIntegrity ==
    /\ (kills = 0 /\ task.k = "none")
       => \A h \in DOMAIN store : Data(h) = Complete(h)
    /\ (/\ run.kind = "cln"
        /\ \E c \in {"ls-tree", "cat-file"}, k \in {"spawn", "exit"} : Failed(c, k))
       => /\ pc = "error"
          /\ run.err \in BackendInvocationErrors

\* One blob row processed from beginning to end with no other task running:
\* write_to_store, create_dir_all, and the link unless the path exists.
process_blob(fs, row, path) ==
    LET w == write_to_store(fs.store, fs.inodes, row.name, CatFileStdout(row.name),
                            row.mode)
        dirs == fs.dirs \cup Prefixes(Components(path))
        key == Components(Path_join(path, row.path))
    IN [store |-> w.store, inodes |-> w.inodes, dirs |-> dirs,
        files |-> IF exists(dirs, fs.files, key) THEN fs.files
                  ELSE hard_link(fs.files, key, w.store[row.name])]

RECURSIVE walk_seq(_, _, _)
\* The rows of a listing processed one after another, in the given order.
walk_seq(fs, rows, path) ==
    IF rows = <<>> THEN fs
    ELSE walk_seq(process_blob(fs, rows[1], path), Tail(rows), path)

\* What processing the rows one after another, in any order, makes of the
\* store and the target the parallel walk began with.
SeqResults ==
    {walk_seq([store |-> snap.store, inodes |-> snap.inodes,
               dirs |-> snap.tdirs["out1"], files |-> snap.tfiles["out1"]],
              order, par.path) : order \in Shuffles(par.rows)}

\* C19 (check-then-create race): the existence check is all that guards a
\* store write.  Two tasks that both found the same hash absent both go on
\* to write it: once both are past their write, the entry has been written
\* twice; and an entry is written twice, or truncated after it was
\* complete, only when two tasks both passed the check for it.
C19_CheckThenCreate ==
    par.n > 0
    => \A h \in ParHashes :
          /\ \A a, b \in par.passed[h] :
                (/\ a # b
                 /\ par.pcs[a] \notin {"check", "create", "fill", "panic"}
                 /\ par.pcs[b] \notin {"check", "create", "fill", "panic"})
                => par.writes[h] >= 2
          /\ (par.writes[h] > 1 \/ h \in par.trunc)
             => Cardinality(par.passed[h]) > 1

\* The interleaving of the claim: two tasks have both passed the check for
\* b1 and both have written it; the complete entry was truncated in between;
\* both tasks have finished.
C19_Witness ==
    /\ par.n = 2
    /\ ~par.root
    /\ par.passed[<<"b1">>] = {1, 2}
    /\ par.writes[<<"b1">>] = 2
    /\ <<"b1">> \in par.trunc
    /\ \A t \in 1..par.n : par.pcs[t] = "done"

\* C20 (interleaving independence): when all tasks of the parallel walk over
\* the sibling rows of a listing have ended, none has ended in an error and
\* the store and the target directory are what processing the rows one
\* after another makes of them.
C20_Independence ==
    (par.n > 0 /\ \A t \in 1..par.n : par.pcs[t] \in ParEnded)
    => /\ \A t \in 1..par.n : par.pcs[t] = "done"
       /\ [store |-> store, inodes |-> inodes, dirs |-> tdirs["out1"],
           files |-> tfiles["out1"]] \in SeqResults

\* C21 (directory-creation races): when two processes have both found the
\* same directory missing (the store root, the target directory or a
\* directory below the target) and both have gone on to create it, neither
\* of them fails: no process ends with an error of a directory creation.
C21_RacesTolerated ==
    \A p \in 1..race.n :
        (\E q \in 1..race.n : q # p /\ race.saw[p] \cap race.saw[q] # {})
        => race.err[p] = ""

\* The hashes the backend has a listing for.
TreeHashes == {<<"c1">>, <<"t1">>, <<"c2">>}

\* The rows of the backend's listings whose kind is neither blob nor tree.
OtherRows ==
    UNION {{r \in {NativeRow(lines(LsTreeStdout(h))[k]) :
                      k \in 1..Len(lines(LsTreeStdout(h)))} :
               r.type \notin {<<"blob">>, <<"tree">>}} : h \in TreeHashes}

\* C22 (other kinds are ignored): for a listing entry whose kind is neither
\* blob nor tree no store entry is written, no file or directory is made at
\* its path in a target, the walker never takes it up, and no backend call
\* is made for it; a checkout of a tree with such an entry, undisturbed by
\* kills and failing calls, ends in Done with exactly the files of the
\* other entries in a target directory that was empty.
C22_OtherKindsIgnored ==
    /\ \A r \in OtherRows :
          /\ r.hash \notin DOMAIN store
          /\ \A t \in Targets :
                <<r.name>> \notin tdirs[t] /\ <<r.name>> \notin DOMAIN tfiles[t]
          /\ task.row.name # r.hash
    /\ (run.kind = "cln" /\ run.hash = <<"c1">>)
       => (calls.lstree <= 2 /\ calls.catfile <= 2)
    /\ (/\ run.kind = "cln"
        /\ run.hash = <<"c1">>
        /\ kills = 0
        /\ fails.n = 0
        /\ pc \in {"done", "error", "panic"})
       => /\ pc = "done"
          /\ snap.tdirs[run.target] = {}
             => TargetMap(run.target) = NativeFiles(run.hash, <<>>)

\* The tree of main, which lists the submodule m beside a file and a
\* directory, has been checked out on the fetch path into an empty store and
\* a new target: two listings and two blobs were read, two files made.
C22_Witness ==
    /\ run.kind = "cln"
    /\ run.hash = <<"c1">>
    /\ run.path = "fetch"
    /\ pc = "done"
    /\ kills = 0
    /\ fails.n = 0
    /\ snap.store = <<>>
    /\ snap.tdirs[run.target] = {}
    /\ OtherRows # {}
    /\ calls.lstree = 2
    /\ calls.catfile = 2
    /\ Cardinality(DOMAIN tfiles[run.target]) = 2

\* The permission bits a mode string stands for: its digits read in base 8,
\* the low twelve bits of that, without the three write bits.
OctalPerm(mode) == StoredPerm(ParseRadix(mode, 8))

\* C23 (octal mode): when write_to_store has stored a new blob without an
\* error, the permission bits of the entry are those of the mode string read
\* as a base-8 number with the write bits cleared: r--r--r-- for 100644,
\* r-xr-xr-x for 100755.
C23_OctalMode ==
    (run.kind = "write_to_store" /\ run.wrote /\ run.err = "")
    => inodes[store[run.hash]].perm = OctalPerm(run.mode)

\* The string without the given ending, when it ends with it.
StripSuffix(s, suf) ==
    IF Len(s) >= Len(suf) /\ SubSeq(s, Len(s) - Len(suf) + 1, Len(s)) = suf
    THEN SubSeq(s, 1, Len(s) - Len(suf))
    ELSE s

\* C24 (target directory default): with a directory argument the target is
\* that directory; without one it is the final '/'-separated segment of the
\* repository locator, from which a trailing ".git" is removed and nothing
\* else: ".git" elsewhere in the segment stays.
C24_TargetDefault ==
    tgt.n > 0
    => IF tgt.dir.some THEN tgt.out = tgt.dir.val
       ELSE LET parts == split(tgt.repo, "/")
            IN tgt.out = StripSuffix(parts[Len(parts)], <<".", "g", "i", "t">>)

\* The store entry h holds a listing with a line of fewer than three fields.
Malformed(h) ==
    /\ h \in DOMAIN store
    /\ \E k \in 1..Len(lines(Data(h))) : Len(split_whitespace(lines(Data(h))[k])) < 3

\* C25 (malformed tree row): a listing with a line of fewer than three
\* fields never makes the process panic; the checkout that parses it as
\* the listing of its root returns MalformedTreeRowError as an error, and
\* nothing is materialized: the target directories are as they were when it
\* began.
C25_MalformedTreeRow ==
    /\ pc # "panic"
    /\ (/\ run.kind = "cln"
        /\ Malformed(run.hash)
        /\ pc \in {"mkdir", "walk", "close", "done", "error", "panic"})
       => /\ pc = "error"
          /\ run.err = "MalformedTreeRowError"
          /\ tdirs = snap.tdirs
          /\ tfiles = snap.tfiles

\* C26 (single initialization of the store root): once STORE_PATH holds a
\* path, no step changes it: not a later call of ensure_cln_store_path,
\* whatever its override, and not is_content_stored.
C26_SingleInit ==
    [][ens.path.some => ens'.path = ens.path]_vars

\* The hashes of the blob rows and the tree rows of the listing stored
\* under h.
Listed(h) ==
    {r.name : r \in {x \in Tree_new(Data(h), <<".">>).rows :
                        x.otype \in {<<"blob">>, <<"tree">>}}}

\* C27 (store closure): whenever no checkout is under way (before the
\* first, and after one has ended in Done, in an error or by a kill), every
\* blob hash and every subtree hash listed in a tree text of the store is
\* in the store too; and a checkout on the cached path never fails for a
\* missing store entry.
C27_StoreClosure ==
    /\ pc \in Ended
       => \A h \in DOMAIN store \cap TreeHashes : Listed(h) \subseteq DOMAIN store
    /\ (run.kind = "cln" /\ run.path = "cached")
       => run.err \notin {"ReadTreeError", "HardLinkError"}

\* C28 (the cached path leaves the store unchanged): no step of a checkout
\* on the cached path, or of a walk with the store-only walker, creates,
\* removes or replaces a store entry or changes the bytes or the permission
\* bits of one, whether the checkout goes on to Done or to an error; nor
\* does it make or remove a temporary workspace.
C28_CachedPathFrame ==
    [][run.path = "cached"
       => /\ store' = store
          /\ \A h \in DOMAIN store : inodes'[store[h]] = inodes[store[h]]
          /\ tmp' = tmp]_vars

\* A checkout on the cached path has failed at a store entry that is
\* missing, after it made its target directory; the store is as it was.
C28_Witness ==
    /\ run.kind = "cln"
    /\ run.path = "cached"
    /\ pc = "error"
    /\ run.err \in {"HardLinkError", "ReadTreeError"}
    /\ tdirs # snap.tdirs
    /\ store = snap.store
    /\ inodes = snap.inodes
    /\ run.hash \in DOMAIN store

\* C29 (a failed fetch has no effect): when git clone could not be spawned
\* or has exited with a non-zero status, cln has returned an error
\* (CommandSpawnError, GitCloneError) and the store, the target directories
\* with their files and the temporary workspaces are as they were when the
\* checkout began: no store entry and no target directory was made, and a
\* target directory that existed is unchanged.
C29_FailedFetch ==
    (/\ run.kind = "cln"
     /\ Failed("clone", "spawn") \/ Failed("clone", "exit"))
    => /\ pc = "error"
       /\ run.err \in BackendInvocationErrors
       /\ store = snap.store
       /\ inodes = snap.inodes
       /\ tdirs = snap.tdirs
       /\ tfiles = snap.tfiles
       /\ tmp = snap.tmp

\* The clone of a second checkout has exited with a non-zero status; the
\* target directory holds the files of the first checkout, the store its
\* entries.
C29_Witness ==
    /\ run.kind = "cln"
    /\ run.n = 2
    /\ Failed("clone", "exit")
    /\ pc = "error"
    /\ run.err = "GitCloneError"
    /\ prev.end = "done"
    /\ prev.target = run.target
    /\ DOMAIN tfiles[run.target] # {}
    /\ DOMAIN store # {}
    /\ calls.clone = 1

\* C30 (the walker variants agree): with a store that holds every listing
\* and blob reachable from a hash, neither walker changes the store at any
\* step, and when both have walked the tree into the same target directory
\* they have ended alike and left the same directories and the same files,
\* linked to the same store entries.
C30_WalkersAgree ==
    run.kind = "walk"
    => /\ store = snap.store
       /\ inodes = snap.inodes
       /\ (res.n = 1 /\ pc \in {"done", "error", "panic"})
          => /\ pc = res.pc
             /\ tdirs = res.tdirs
             /\ tfiles = res.tfiles
             /\ res.store = snap.store
             /\ res.inodes = snap.inodes

\* Both walkers have walked the tree of c1, the live one first, into a
\* directory that held a file of the caller's at "a": both have left that
\* file and linked the file of the subtree.
C30_Witness ==
    /\ run.kind = "walk"
    /\ res.n = 1
    /\ res.walker = "repo"
    /\ run.path = "cached"
    /\ run.hash = <<"c1">>
    /\ pc = "done"
    /\ res.pc = "done"
    /\ snap.tfiles["out1"] # <<>>
    /\ tfiles["out1"][<<<<"a">>>>] = Ino("user", <<"a">>)
    /\ tfiles["out1"][<<<<"d">>, <<"f">>>>] = store[<<"b2">>]
    /\ res.tfiles = tfiles

====
